---------------------------- MODULE Spec2Model ----------------------------
(***************************************************************************)
(* A model of the wmidi MIDI 1.0 codec: the decoder and encoder of         *)
(* src/src/midi_message.rs and the Standard MIDI File writer of            *)
(* src/src/smf.rs (which writes MIDI events through the `write` method of  *)
(* src/src/lib.rs).                                                        *)
(*                                                                         *)
(* Bytes are integers 0..255.  Rust slices are 0-based; the model keeps    *)
(* the source's indices through At and Slice.  A Result is a record with   *)
(* kind "Ok" | "Err" | "Panic"; "Panic" is a Rust panic (unreachable!(),   *)
(* an out-of-bounds index, a copy_from_slice length mismatch).             *)
(***************************************************************************)
EXTENDS Integers, Sequences, FiniteSets, TLC

VARIABLES pc, bytes, result, msg, slice, ret, smf, w, smfResult, call, returned,
          start, messages

vars == <<pc, bytes, result, msg, slice, ret, smf, w, smfResult, call, returned,
          start, messages>>

---------------------------------------------------------------------------
(* Bounds of the model.                                                    *)

\* longest input buffer handed to try_from
MaxLen == 4
\* longest SysEx payload of an encoded message
MaxPayload == 2
\* longest destination buffer handed to copy_to_slice
MaxDst == 5

---------------------------------------------------------------------------
(* u8 arithmetic.                                                          *)

RECURSIVE BitAnd(_, _)
BitAnd(x, y) ==
    IF x = 0 \/ y = 0 THEN 0
    ELSE (IF x % 2 = 1 /\ y % 2 = 1 THEN 1 ELSE 0) + 2 * BitAnd(x \div 2, y \div 2)

RECURSIVE BitOr(_, _)
BitOr(x, y) ==
    IF x = 0 THEN y
    ELSE IF y = 0 THEN x
    ELSE (IF x % 2 = 1 \/ y % 2 = 1 THEN 1 ELSE 0) + 2 * BitOr(x \div 2, y \div 2)

\* s[i] of a 0-based Rust slice
At(s, i) == s[i + 1]

\* &s[from..to] of a 0-based Rust slice
Slice(s, from, to) == SubSeq(s, from + 1, to)

---------------------------------------------------------------------------
(* Results.                                                                *)

NoMsg == [tag |-> "None", chan |-> 0, a |-> 0, b |-> 0, data |-> <<>>]

Ok(m) == [kind |-> "Ok", val |-> m, err |-> "None", byte |-> 0]

Err(e) == [kind |-> "Err", val |-> NoMsg, err |-> e, byte |-> 0]

ErrByte(e, x) == [kind |-> "Err", val |-> NoMsg, err |-> e, byte |-> x]

Panic == [kind |-> "Panic", val |-> NoMsg, err |-> "None", byte |-> 0]

\* Result<U7, Error>, Result<U14, Error>, Result<&[U7], Error>,
\* Result<Channel, Error>: num is the value
OkNum(v) == [kind |-> "Ok", num |-> v, err |-> "None"]

ErrNum(e) == [kind |-> "Err", num |-> 0, err |-> e]

---------------------------------------------------------------------------
(* byte.rs                                                                 *)

U7_MAX == 127

\* the tuple struct U7(u8)
U7(d) == [u7 |-> d]

\* From<U7> for u8: data.0
u8_from_U7(x) == x.u7

\* mutant of U7_try_from: U7::MAX itself refused
U7_try_from_below_max(data) ==
    IF data >= U7_MAX THEN ErrNum("DataByteOutOfRange") ELSE OkNum(U7(data))

\* TryFrom<u8> for U7
U7_try_from(data) ==
    IF data > U7_MAX THEN ErrNum("DataByteOutOfRange") ELSE OkNum(U7(data))

\* U7::from_bytes_unchecked: the same bytes, seen as U7s
from_bytes_unchecked(bs) == [i \in 1..Len(bs) |-> U7(bs[i])]

\* U7::data_to_bytes: the same U7s, seen as bytes
data_to_bytes(data) == [i \in 1..Len(data) |-> u8_from_U7(data[i])]

\* mutant of U7_try_from_bytes: only the first byte is validated
U7_try_from_bytes_first_only(bs) ==
    IF bs # <<>> /\ U7_try_from(bs[1]).kind = "Err"
    THEN ErrNum(U7_try_from(bs[1]).err)
    ELSE OkNum(from_bytes_unchecked(bs))

\* U7::try_from_bytes: the loop returns the error of the first byte that is
\* refused; the cast is reached when none is
U7_try_from_bytes(bs) ==
    IF \E i \in 1..Len(bs) : U7_try_from(bs[i]).kind = "Err"
    THEN LET first == CHOOSE i \in 1..Len(bs) :
                          /\ U7_try_from(bs[i]).kind = "Err"
                          /\ \A j \in 1..(i - 1) : U7_try_from(bs[j]).kind = "Ok"
         IN  ErrNum(U7_try_from(bs[first]).err)
    ELSE OkNum(from_bytes_unchecked(bs))

U14_MAX == 16383

\* the tuple struct U14(u16)
U14(d) == [u14 |-> d]

\* From<U14> for u16: data.0
u16_from_U14(x) == x.u14

\* mutant of U14_try_from: the bound 0x03FF of the error's description
U14_try_from_max_0x03FF(data) ==
    IF data > 1023 THEN ErrNum("U14OutOfRange") ELSE OkNum(U14(data))

\* TryFrom<u16> for U14
U14_try_from(data) ==
    IF data > U14_MAX THEN ErrNum("U14OutOfRange") ELSE OkNum(U14(data))

---------------------------------------------------------------------------
(* midi_message.rs: Channel.  Channel::ChN is the number N.                *)

\* mutant of Channel_from_index: the index taken for the channel's number
Channel_from_index_as_number(i) ==
    IF i \in 0..15 THEN OkNum(i) ELSE ErrNum("ChannelOutOfRange")

Channel_from_index(i) ==
    IF i \in 0..15 THEN OkNum(i + 1) ELSE ErrNum("ChannelOutOfRange")

\* mutant of Channel_index: the channel's number given as its index
Channel_index_as_number(c) == c

Channel_index(c) == c - 1

\* self.index() + 1
Channel_number(c) == Channel_index(c) + 1

---------------------------------------------------------------------------
(* midi_message.rs: the MidiMessage enum.                                  *)

NoteOff(c, n, v) == [tag |-> "NoteOff", chan |-> c, a |-> n, b |-> v, data |-> <<>>]

NoteOn(c, n, v) == [tag |-> "NoteOn", chan |-> c, a |-> n, b |-> v, data |-> <<>>]

PolyphonicKeyPressure(c, n, v) ==
    [tag |-> "PolyphonicKeyPressure", chan |-> c, a |-> n, b |-> v, data |-> <<>>]

ControlChange(c, n, v) ==
    [tag |-> "ControlChange", chan |-> c, a |-> n, b |-> v, data |-> <<>>]

ProgramChange(c, p) == [tag |-> "ProgramChange", chan |-> c, a |-> p, b |-> 0, data |-> <<>>]

ChannelPressure(c, v) ==
    [tag |-> "ChannelPressure", chan |-> c, a |-> v, b |-> 0, data |-> <<>>]

PitchBendChange(c, p) ==
    [tag |-> "PitchBendChange", chan |-> c, a |-> p, b |-> 0, data |-> <<>>]

SysEx(d) == [tag |-> "SysEx", chan |-> 0, a |-> 0, b |-> 0, data |-> d]

OwnedSysEx(d) == [tag |-> "OwnedSysEx", chan |-> 0, a |-> 0, b |-> 0, data |-> d]

MidiTimeCode(x) == [tag |-> "MidiTimeCode", chan |-> 0, a |-> x, b |-> 0, data |-> <<>>]

SongPositionPointer(p) ==
    [tag |-> "SongPositionPointer", chan |-> 0, a |-> p, b |-> 0, data |-> <<>>]

SongSelect(x) == [tag |-> "SongSelect", chan |-> 0, a |-> x, b |-> 0, data |-> <<>>]

Reserved(x) == [tag |-> "Reserved", chan |-> 0, a |-> x, b |-> 0, data |-> <<>>]

Unit(t) == [tag |-> t, chan |-> 0, a |-> 0, b |-> 0, data |-> <<>>]

---------------------------------------------------------------------------
(* midi_message.rs: decoding.                                              *)

\* mutant of combine_data: the higher byte weighs 256
combine_data_base256(lower, higher) == lower + 256 * higher

\* mutant of combine_data: the first data byte taken for the high 7 bits
combine_data_high_first(lower, higher) == higher + 128 * lower

combine_data(lower, higher) == lower + 128 * higher

\* mutant of split_data: base 127, the split of an earlier revision
split_data_base127(data) == <<data % 127, data \div 127>>

split_data(data) == <<data % 128, data \div 128>>

is_status_byte(b) == BitAnd(b, 128) = 128

\* mutant of valid_data_byte: the bound off by one, 0x80 passes as data
valid_data_byte_accepts_0x80(b) ==
    IF b > 128 THEN ErrNum("UnexpectedStatusByte") ELSE OkNum(b)

valid_data_byte(b) ==
    IF U7_try_from(b).kind = "Ok" THEN OkNum(u8_from_U7(U7_try_from(b).num))
    ELSE ErrNum("UnexpectedStatusByte")

\* bytes.get(i).ok_or(Error::NotEnoughBytes).and_then(|b| valid_data_byte(*b))
data_at(bs, i) ==
    IF i < Len(bs) THEN valid_data_byte(At(bs, i)) ELSE ErrNum("NotEnoughBytes")

\* mutant of position_status: the scan looks for the end byte 0xF7 itself
position_end_byte(s) ==
    IF \E i \in 1..Len(s) : s[i] = 247
    THEN (CHOOSE i \in 1..Len(s) : s[i] = 247 /\ \A j \in 1..(i - 1) : s[j] # 247) - 1
    ELSE -1

\* mutant of position_status: the index of the last status byte of s
position_last_status(s) ==
    IF \E i \in 1..Len(s) : is_status_byte(s[i])
    THEN (CHOOSE i \in 1..Len(s) :
              /\ is_status_byte(s[i])
              /\ \A j \in (i + 1)..Len(s) : ~is_status_byte(s[j])) - 1
    ELSE -1

\* iter().copied().position(is_status_byte): the 0-based index of the first
\* status byte of s, or -1 for None
position_status(s) ==
    IF \E i \in 1..Len(s) : is_status_byte(s[i])
    THEN (CHOOSE i \in 1..Len(s) :
              /\ is_status_byte(s[i])
              /\ \A j \in 1..(i - 1) : ~is_status_byte(s[j])) - 1
    ELSE -1

\* mutant of new_sysex: the payload runs through the end byte
new_sysex_keeps_end_byte(bs) ==
    LET pos == position_status(Slice(bs, 1, Len(bs)))
        end_i == 1 + pos
    IN  IF pos = -1 THEN Err("NoSysExEndByte")
        ELSE IF At(bs, end_i) # 247
             THEN ErrByte("UnexpectedNonSysExEndByte", At(bs, end_i))
             ELSE Ok(SysEx(Slice(bs, 1, end_i + 1)))

new_sysex(bs) ==
    LET pos == position_status(Slice(bs, 1, Len(bs)))
        end_i == 1 + pos
    IN  IF pos = -1 THEN Err("NoSysExEndByte")
        ELSE IF At(bs, end_i) # 247
             THEN ErrByte("UnexpectedNonSysExEndByte", At(bs, end_i))
             ELSE Ok(SysEx(Slice(bs, 1, end_i)))

\* Ok(Variant(chan, data_a?)): the ? returns data_a's error
with_a(da, m) == IF da.kind = "Err" THEN Err(da.err) ELSE Ok(m)

\* mutant of with_ab: data_b? is looked at before data_a?
with_ab_b_first(da, db, m) ==
    IF db.kind = "Err" THEN Err(db.err)
    ELSE IF da.kind = "Err" THEN Err(da.err)
    ELSE Ok(m)

\* Ok(Variant(chan, data_a?, data_b?)): data_a's error first, then data_b's
with_ab(da, db, m) ==
    IF da.kind = "Err" THEN Err(da.err)
    ELSE IF db.kind = "Err" THEN Err(db.err)
    ELSE Ok(m)

\* mutant of try_from_system: 0xF7 falls in with the reserved bytes 0xF4, 0xF5
try_from_system_f7_reserved(bs, data_a, data_b) ==
    LET s == At(bs, 0)
    IN  CASE s = 240 -> new_sysex(bs)
          [] s = 241 -> with_a(data_a, MidiTimeCode(data_a.num))
          [] s = 242 -> with_ab(data_a, data_b,
                                SongPositionPointer(combine_data(data_a.num, data_b.num)))
          [] s = 243 -> with_a(data_a, SongSelect(data_a.num))
          [] s \in {244, 245, 247} -> Ok(Reserved(s))
          [] s = 246 -> Ok(Unit("TuneRequest"))
          [] s = 248 -> Ok(Unit("TimingClock"))
          [] s = 249 -> Ok(Reserved(s))
          [] s = 250 -> Ok(Unit("Start"))
          [] s = 251 -> Ok(Unit("Continue"))
          [] s = 252 -> Ok(Unit("Stop"))
          [] s = 253 -> Ok(Reserved(s))
          [] s = 254 -> Ok(Unit("ActiveSensing"))
          [] s = 255 -> Ok(Unit("Reset"))
          [] OTHER -> Panic

try_from_system(bs, data_a, data_b) ==
    LET s == At(bs, 0)
    IN  CASE s = 240 -> new_sysex(bs)
          [] s = 241 -> with_a(data_a, MidiTimeCode(data_a.num))
          [] s = 242 -> with_ab(data_a, data_b,
                                SongPositionPointer(combine_data(data_a.num, data_b.num)))
          [] s = 243 -> with_a(data_a, SongSelect(data_a.num))
          [] s \in {244, 245} -> Ok(Reserved(s))
          [] s = 246 -> Ok(Unit("TuneRequest"))
          [] s = 247 -> Err("UnexpectedEndSysExByte")
          [] s = 248 -> Ok(Unit("TimingClock"))
          [] s = 249 -> Ok(Reserved(s))
          [] s = 250 -> Ok(Unit("Start"))
          [] s = 251 -> Ok(Unit("Continue"))
          [] s = 252 -> Ok(Unit("Stop"))
          [] s = 253 -> Ok(Reserved(s))
          [] s = 254 -> Ok(Unit("ActiveSensing"))
          [] s = 255 -> Ok(Unit("Reset"))
          [] OTHER -> Panic

try_from(bs) ==
    IF Len(bs) = 0 THEN Err("NoBytes")
    ELSE LET chanR == Channel_from_index(BitAnd(At(bs, 0), 15))
             chan == chanR.num
             data_a == data_at(bs, 1)
             data_b == data_at(bs, 2)
             hi == BitAnd(At(bs, 0), 240)
         IN  IF chanR.kind = "Err" THEN Err(chanR.err)
             ELSE CASE hi = 128 -> with_ab(data_a, data_b, NoteOff(chan, data_a.num, data_b.num))
                    [] hi = 144 -> with_ab(data_a, data_b, NoteOn(chan, data_a.num, data_b.num))
                    [] hi = 160 -> with_ab(data_a, data_b,
                                           PolyphonicKeyPressure(chan, data_a.num, data_b.num))
                    [] hi = 176 -> with_ab(data_a, data_b,
                                           ControlChange(chan, data_a.num, data_b.num))
                    [] hi = 192 -> with_a(data_a, ProgramChange(chan, data_a.num))
                    [] hi = 208 -> with_a(data_a, ChannelPressure(chan, data_a.num))
                    [] hi = 224 -> with_ab(data_a, data_b,
                                           PitchBendChange(chan,
                                                           combine_data(data_a.num, data_b.num)))
                    [] hi = 240 -> try_from_system(bs, data_a, data_b)
                    [] OTHER -> Panic

---------------------------------------------------------------------------
(* midi_message.rs: encoding.                                              *)

\* mutant of bytes_size: PitchBendChange counted as a two-byte message
bytes_size_pitch_bend_two(m) ==
    CASE m.tag \in {"NoteOff", "NoteOn", "PolyphonicKeyPressure", "ControlChange"} -> 3
      [] m.tag \in {"ProgramChange", "ChannelPressure"} -> 2
      [] m.tag = "PitchBendChange" -> 2
      [] m.tag \in {"SysEx", "OwnedSysEx"} -> 2 + Len(m.data)
      [] m.tag = "MidiTimeCode" -> 2
      [] m.tag = "SongPositionPointer" -> 3
      [] m.tag = "SongSelect" -> 2
      [] OTHER -> 1

bytes_size(m) ==
    CASE m.tag \in {"NoteOff", "NoteOn", "PolyphonicKeyPressure", "ControlChange"} -> 3
      [] m.tag \in {"ProgramChange", "ChannelPressure"} -> 2
      [] m.tag = "PitchBendChange" -> 3
      [] m.tag \in {"SysEx", "OwnedSysEx"} -> 2 + Len(m.data)
      [] m.tag = "MidiTimeCode" -> 2
      [] m.tag = "SongPositionPointer" -> 3
      [] m.tag = "SongSelect" -> 2
      [] OTHER -> 1

\* The array handed to slice.copy_from_slice by each arm that copies one.
wire_array(m) ==
    CASE m.tag = "NoteOff" -> <<BitOr(128, Channel_index(m.chan)), m.a, m.b>>
      [] m.tag = "NoteOn" -> <<BitOr(144, Channel_index(m.chan)), m.a, m.b>>
      [] m.tag = "PolyphonicKeyPressure" -> <<BitOr(160, Channel_index(m.chan)), m.a, m.b>>
      [] m.tag = "ControlChange" -> <<BitOr(176, Channel_index(m.chan)), m.a, m.b>>
      [] m.tag = "ProgramChange" -> <<BitOr(192, Channel_index(m.chan)), m.a>>
      [] m.tag = "ChannelPressure" -> <<BitOr(208, Channel_index(m.chan)), m.a>>
      [] m.tag = "PitchBendChange" ->
            <<BitOr(224, Channel_index(m.chan)), split_data(m.a)[1], split_data(m.a)[2]>>
      [] m.tag = "MidiTimeCode" -> <<241, m.a>>
      [] m.tag = "SongPositionPointer" -> <<242, split_data(m.a)[1], split_data(m.a)[2]>>
      [] m.tag = "SongSelect" -> <<243, m.a>>
      [] m.tag = "Reserved" -> <<m.a>>
      [] m.tag = "TuneRequest" -> <<246>>
      [] m.tag = "TimingClock" -> <<248>>
      [] m.tag = "Start" -> <<250>>
      [] m.tag = "Continue" -> <<251>>
      [] m.tag = "Stop" -> <<252>>
      [] m.tag = "ActiveSensing" -> <<254>>
      [] m.tag = "Reset" -> <<255>>

\* The outcome of copy_to_slice: its return value and the destination after it.
Copied(r, s) == [res |-> r, slice |-> s]

OkLen(n) == [kind |-> "Ok", n |-> n, err |-> "None"]

ErrLen(e) == [kind |-> "Err", n |-> 0, err |-> e]

PanicLen == [kind |-> "Panic", n |-> 0, err |-> "None"]

\* mutant of buffer_too_small: a buffer of exactly bytes_size() is refused
buffer_too_small_off_by_one(m, dst) == Len(dst) <= bytes_size(m)

\* if slice.len() < self.bytes_size()
buffer_too_small(m, dst) == Len(dst) < bytes_size(m)

\* slice.copy_from_slice(&[..]) on slice = &mut dst[..n]: panics unless the
\* array is n long; the bytes of dst past n are not part of slice
copy_array(arr, dst, n) ==
    IF Len(arr) # n THEN Copied(PanicLen, dst)
    ELSE Copied(OkLen(n), [i \in 1..Len(dst) |-> IF i <= n THEN arr[i] ELSE dst[i]])

\* mutant of copy_sysex: without the re-slicing to bytes_size(), the end byte
\* goes to the last index of the destination
copy_sysex_end_at_last(b, dst, n) ==
    Copied(OkLen(n),
           [i \in 1..Len(dst) |->
               IF i - 1 = 0 THEN 240
               ELSE IF 1 <= i - 1 /\ i - 1 < 1 + Len(b) THEN b[i - 1]
               ELSE IF i = Len(dst) THEN 247
               ELSE dst[i]])

\* slice[0] = 0xF0; slice[1..1 + b.len()].copy_from_slice(data); slice[1 + b.len()] = 0xF7
copy_sysex(b, dst, n) ==
    Copied(OkLen(n),
           [i \in 1..Len(dst) |->
               IF i - 1 = 0 THEN 240
               ELSE IF 1 <= i - 1 /\ i - 1 < 1 + Len(b) THEN b[i - 1]
               ELSE IF i - 1 = 1 + Len(b) THEN 247
               ELSE dst[i]])

copy_to_slice(m, dst) ==
    IF buffer_too_small(m, dst) THEN Copied(ErrLen("BufferTooSmall"), dst)
    ELSE IF m.tag \in {"SysEx", "OwnedSysEx"}
         THEN copy_sysex(m.data, dst, bytes_size(m))
         ELSE copy_array(wire_array(m), dst, bytes_size(m))

---------------------------------------------------------------------------
(* midi_message.rs: to_owned and drop_unowned_sysex.                       *)

\* bytes.to_vec(): a copy of the payload
to_vec(d) == [i \in 1..Len(d) |-> d[i]]

\* Option<MidiMessage>
Some(m) == [kind |-> "Some", val |-> m]

None == [kind |-> "None", val |-> NoMsg]

\* mutant of to_owned: the borrowed SysEx returned as it is
to_owned_keeps_borrow(m) ==
    CASE m.tag = "NoteOff" -> NoteOff(m.chan, m.a, m.b)
      [] m.tag = "NoteOn" -> NoteOn(m.chan, m.a, m.b)
      [] m.tag = "PolyphonicKeyPressure" -> PolyphonicKeyPressure(m.chan, m.a, m.b)
      [] m.tag = "ControlChange" -> ControlChange(m.chan, m.a, m.b)
      [] m.tag = "ProgramChange" -> ProgramChange(m.chan, m.a)
      [] m.tag = "ChannelPressure" -> ChannelPressure(m.chan, m.a)
      [] m.tag = "PitchBendChange" -> PitchBendChange(m.chan, m.a)
      [] m.tag = "SysEx" -> SysEx(m.data)
      [] m.tag = "OwnedSysEx" -> OwnedSysEx(m.data)
      [] m.tag = "MidiTimeCode" -> MidiTimeCode(m.a)
      [] m.tag = "SongPositionPointer" -> SongPositionPointer(m.a)
      [] m.tag = "SongSelect" -> SongSelect(m.a)
      [] m.tag = "Reserved" -> Reserved(m.a)
      [] m.tag = "TuneRequest" -> Unit("TuneRequest")
      [] m.tag = "TimingClock" -> Unit("TimingClock")
      [] m.tag = "Start" -> Unit("Start")
      [] m.tag = "Continue" -> Unit("Continue")
      [] m.tag = "Stop" -> Unit("Stop")
      [] m.tag = "ActiveSensing" -> Unit("ActiveSensing")
      [] m.tag = "Reset" -> Unit("Reset")

to_owned(m) ==
    CASE m.tag = "NoteOff" -> NoteOff(m.chan, m.a, m.b)
      [] m.tag = "NoteOn" -> NoteOn(m.chan, m.a, m.b)
      [] m.tag = "PolyphonicKeyPressure" -> PolyphonicKeyPressure(m.chan, m.a, m.b)
      [] m.tag = "ControlChange" -> ControlChange(m.chan, m.a, m.b)
      [] m.tag = "ProgramChange" -> ProgramChange(m.chan, m.a)
      [] m.tag = "ChannelPressure" -> ChannelPressure(m.chan, m.a)
      [] m.tag = "PitchBendChange" -> PitchBendChange(m.chan, m.a)
      [] m.tag = "SysEx" -> OwnedSysEx(to_vec(m.data))
      [] m.tag = "OwnedSysEx" -> OwnedSysEx(m.data)
      [] m.tag = "MidiTimeCode" -> MidiTimeCode(m.a)
      [] m.tag = "SongPositionPointer" -> SongPositionPointer(m.a)
      [] m.tag = "SongSelect" -> SongSelect(m.a)
      [] m.tag = "Reserved" -> Reserved(m.a)
      [] m.tag = "TuneRequest" -> Unit("TuneRequest")
      [] m.tag = "TimingClock" -> Unit("TimingClock")
      [] m.tag = "Start" -> Unit("Start")
      [] m.tag = "Continue" -> Unit("Continue")
      [] m.tag = "Stop" -> Unit("Stop")
      [] m.tag = "ActiveSensing" -> Unit("ActiveSensing")
      [] m.tag = "Reset" -> Unit("Reset")

\* mutant of drop_unowned_sysex: the owned SysEx dropped as well
drop_unowned_sysex_drops_owned(m) ==
    CASE m.tag = "NoteOff" -> Some(NoteOff(m.chan, m.a, m.b))
      [] m.tag = "NoteOn" -> Some(NoteOn(m.chan, m.a, m.b))
      [] m.tag = "PolyphonicKeyPressure" -> Some(PolyphonicKeyPressure(m.chan, m.a, m.b))
      [] m.tag = "ControlChange" -> Some(ControlChange(m.chan, m.a, m.b))
      [] m.tag = "ProgramChange" -> Some(ProgramChange(m.chan, m.a))
      [] m.tag = "ChannelPressure" -> Some(ChannelPressure(m.chan, m.a))
      [] m.tag = "PitchBendChange" -> Some(PitchBendChange(m.chan, m.a))
      [] m.tag = "SysEx" -> None
      [] m.tag = "OwnedSysEx" -> None
      [] m.tag = "MidiTimeCode" -> Some(MidiTimeCode(m.a))
      [] m.tag = "SongPositionPointer" -> Some(SongPositionPointer(m.a))
      [] m.tag = "SongSelect" -> Some(SongSelect(m.a))
      [] m.tag = "Reserved" -> Some(Reserved(m.a))
      [] m.tag = "TuneRequest" -> Some(Unit("TuneRequest"))
      [] m.tag = "TimingClock" -> Some(Unit("TimingClock"))
      [] m.tag = "Start" -> Some(Unit("Start"))
      [] m.tag = "Continue" -> Some(Unit("Continue"))
      [] m.tag = "Stop" -> Some(Unit("Stop"))
      [] m.tag = "ActiveSensing" -> Some(Unit("ActiveSensing"))
      [] m.tag = "Reset" -> Some(Unit("Reset"))

drop_unowned_sysex(m) ==
    CASE m.tag = "NoteOff" -> Some(NoteOff(m.chan, m.a, m.b))
      [] m.tag = "NoteOn" -> Some(NoteOn(m.chan, m.a, m.b))
      [] m.tag = "PolyphonicKeyPressure" -> Some(PolyphonicKeyPressure(m.chan, m.a, m.b))
      [] m.tag = "ControlChange" -> Some(ControlChange(m.chan, m.a, m.b))
      [] m.tag = "ProgramChange" -> Some(ProgramChange(m.chan, m.a))
      [] m.tag = "ChannelPressure" -> Some(ChannelPressure(m.chan, m.a))
      [] m.tag = "PitchBendChange" -> Some(PitchBendChange(m.chan, m.a))
      [] m.tag = "SysEx" -> None
      [] m.tag = "OwnedSysEx" -> Some(OwnedSysEx(m.data))
      [] m.tag = "MidiTimeCode" -> Some(MidiTimeCode(m.a))
      [] m.tag = "SongPositionPointer" -> Some(SongPositionPointer(m.a))
      [] m.tag = "SongSelect" -> Some(SongSelect(m.a))
      [] m.tag = "Reserved" -> Some(Reserved(m.a))
      [] m.tag = "TuneRequest" -> Some(Unit("TuneRequest"))
      [] m.tag = "TimingClock" -> Some(Unit("TimingClock"))
      [] m.tag = "Start" -> Some(Unit("Start"))
      [] m.tag = "Continue" -> Some(Unit("Continue"))
      [] m.tag = "Stop" -> Some(Unit("Stop"))
      [] m.tag = "ActiveSensing" -> Some(Unit("ActiveSensing"))
      [] m.tag = "Reset" -> Some(Unit("Reset"))

---------------------------------------------------------------------------
(* lib.rs: MidiMessage::write, the method smf.rs writes MIDI events with.  *)
(* The writer is a Vec<u8>: a write appends the whole buffer and returns   *)
(* its length.  Written(out, n): the bytes a method appended to the        *)
(* writer, in order, and the count the method returned.                    *)

Written(out, n) == [out |-> out, n |-> n]

\* w.write(&[..]) as the arm's only call: the count of that write
write_one(buf) == Written(buf, Len(buf))

\* w.write(first)?; w.write(second): the count of the last write
write_two(first, second) == Written(first \o second, Len(second))

\* w.write(first)?; w.write(second)?; w.write(third): the count of the last write
write_three(first, second, third) == Written(first \o second \o third, Len(third))

MidiMessage_write(m) ==
    CASE m.tag = "NoteOff" -> write_one(<<BitOr(128, Channel_index(m.chan)), m.a, m.b>>)
      [] m.tag = "NoteOn" -> write_one(<<BitOr(144, Channel_index(m.chan)), m.a, m.b>>)
      [] m.tag = "PolyphonicKeyPressure" ->
            write_one(<<BitOr(160, Channel_index(m.chan)), m.a, m.b>>)
      [] m.tag = "ControlChange" ->
            write_one(<<BitOr(176, Channel_index(m.chan)), m.a, m.b>>)
      [] m.tag = "ProgramChange" -> write_one(<<BitOr(192, Channel_index(m.chan)), m.a>>)
      [] m.tag = "ChannelPressure" -> write_one(<<BitOr(208, Channel_index(m.chan)), m.a>>)
      [] m.tag = "PitchBendChange" ->
            write_two(<<BitOr(224, Channel_index(m.chan))>>, split_data(m.a))
      [] m.tag = "SysEx" -> write_three(<<240>>, m.data, <<247>>)
      [] m.tag = "MidiTimeCode" -> write_one(<<241, m.a>>)
      [] m.tag = "SongPositionPointer" -> write_two(<<242>>, split_data(m.a))
      [] m.tag = "SongSelect" -> write_one(<<243, m.a>>)
      [] m.tag = "Reserved" -> write_one(<<m.a>>)
      [] m.tag = "TuneRequest" -> write_one(<<246>>)
      [] m.tag = "TimingClock" -> write_one(<<248>>)
      [] m.tag = "Start" -> write_one(<<250>>)
      [] m.tag = "Continue" -> write_one(<<251>>)
      [] m.tag = "Stop" -> write_one(<<252>>)
      [] m.tag = "ActiveSensing" -> write_one(<<254>>)
      [] m.tag = "Reset" -> write_one(<<255>>)

---------------------------------------------------------------------------
(* lib.rs: MidiMessage::drop_sysex and MidiMessage::wire_size.             *)

drop_sysex(m) ==
    CASE m.tag = "NoteOff" -> Some(NoteOff(m.chan, m.a, m.b))
      [] m.tag = "NoteOn" -> Some(NoteOff(m.chan, m.a, m.b))
      [] m.tag = "PolyphonicKeyPressure" -> Some(PolyphonicKeyPressure(m.chan, m.a, m.b))
      [] m.tag = "ControlChange" -> Some(ControlChange(m.chan, m.a, m.b))
      [] m.tag = "ProgramChange" -> Some(ProgramChange(m.chan, m.a))
      [] m.tag = "ChannelPressure" -> Some(ChannelPressure(m.chan, m.a))
      [] m.tag = "PitchBendChange" -> Some(PitchBendChange(m.chan, m.a))
      [] m.tag = "SysEx" -> None
      [] m.tag = "MidiTimeCode" -> Some(MidiTimeCode(m.a))
      [] m.tag = "SongPositionPointer" -> Some(SongPositionPointer(m.a))
      [] m.tag = "SongSelect" -> Some(SongSelect(m.a))
      [] m.tag = "Reserved" -> Some(Reserved(m.a))
      [] m.tag = "TuneRequest" -> Some(Unit("TuneRequest"))
      [] m.tag = "TimingClock" -> Some(Unit("TimingClock"))
      [] m.tag = "Start" -> Some(Unit("Start"))
      [] m.tag = "Continue" -> Some(Unit("Continue"))
      [] m.tag = "Stop" -> Some(Unit("Stop"))
      [] m.tag = "ActiveSensing" -> Some(Unit("ActiveSensing"))
      [] m.tag = "Reset" -> Some(Unit("Reset"))

wire_size(m) ==
    CASE m.tag = "NoteOff" -> 3
      [] m.tag = "NoteOn" -> 3
      [] m.tag = "PolyphonicKeyPressure" -> 3
      [] m.tag = "ControlChange" -> 3
      [] m.tag = "ProgramChange" -> 2
      [] m.tag = "ChannelPressure" -> 2
      [] m.tag = "PitchBendChange" -> 2
      [] m.tag = "SysEx" -> 2 + Len(m.data)
      [] m.tag = "MidiTimeCode" -> 2
      [] m.tag = "SongPositionPointer" -> 3
      [] m.tag = "SongSelect" -> 2
      [] m.tag = "Reserved" -> 1
      [] m.tag = "TuneRequest" -> 1
      [] m.tag = "TimingClock" -> 1
      [] m.tag = "Start" -> 1
      [] m.tag = "Continue" -> 1
      [] m.tag = "Stop" -> 1
      [] m.tag = "ActiveSensing" -> 1
      [] m.tag = "Reset" -> 1

---------------------------------------------------------------------------
(* note.rs: a Note is its number, the discriminant of the repr(u8) enum.   *)

\* Note::LOWEST_NOTE as i16: Note::CMinus1
LOWEST_NOTE == 0

\* Note::HIGHEST_NOTE as i16: Note::G9
HIGHEST_NOTE == 127

\* the value of x as an i16
as_i16(x) == ((x + 32768) % 65536) - 32768

\* the value of x as a u8
as_u8(x) == x % 256

\* Note::from_u8_unchecked(note): the transmuted byte
from_u8_unchecked(note) == note

\* mutant of step: the highest note excluded
step_below_highest(note, half_steps) ==
    LET raw_note == as_i16(as_i16(note) + as_i16(half_steps))
    IN  IF LOWEST_NOTE <= raw_note /\ raw_note < HIGHEST_NOTE
        THEN OkNum(from_u8_unchecked(as_u8(raw_note)))
        ELSE ErrNum("NoteOutOfRange")

step(note, half_steps) ==
    LET raw_note == as_i16(as_i16(note) + as_i16(half_steps))
    IN  IF LOWEST_NOTE <= raw_note /\ raw_note <= HIGHEST_NOTE
        THEN OkNum(from_u8_unchecked(as_u8(raw_note)))
        ELSE ErrNum("NoteOutOfRange")

---------------------------------------------------------------------------
(* smf.rs                                                                  *)

\* storage.reverse()
RECURSIVE Reverse(_)
Reverse(s) == IF s = <<>> THEN <<>> ELSE Append(Reverse(Tail(s)), Head(s))

\* the loop of encode_varint: one iteration pushes a 7-bit group
RECURSIVE varint_loop(_, _, _)
varint_loop(cur, continuation, storage) ==
    LET to_write == BitAnd(cur, 127) + (IF continuation THEN 128 ELSE 0)
    IN  IF cur \div 128 = 0 THEN Append(storage, to_write)
        ELSE varint_loop(cur \div 128, TRUE, Append(storage, to_write))

\* mutant of encode_varint: without storage.reverse()
encode_varint_not_reversed(val) == varint_loop(val, FALSE, <<>>)

encode_varint(val) == Reverse(varint_loop(val, FALSE, <<>>))

\* v.to_be_bytes() of an unsigned integer of n bytes
RECURSIVE to_be_bytes(_, _)
to_be_bytes(v, n) ==
    IF n = 0 THEN <<>> ELSE Append(to_be_bytes(v \div 256, n - 1), v % 256)

\* Format as u16
Format_code(f) ==
    CASE f = "SingleTrack" -> 0
      [] f = "MultipleTracks" -> 1
      [] f = "MultipleSong" -> 2

\* Division::TicksPerBeat(ticks).encode(); ticks is an i16, two's complement
Division_encode(ticks) == BitAnd(ticks % 65536, 127)

\* a MetaEvent is its variant and the bytes of its string
MetaEvent(v, d) == [variant |-> v, data |-> d]

event_code(me) ==
    CASE me.variant = "SequenceNumber" -> 0
      [] me.variant = "TextEvent" -> 1
      [] me.variant = "CopyrightNotice" -> 2
      [] me.variant = "EndOfTrack" -> 3

MetaEvent_data(me) == IF me.variant = "EndOfTrack" THEN <<>> ELSE me.data

\* mutant of MetaEvent_encode: the length written as one plain byte
MetaEvent_encode_length_byte(me) ==
    Written(<<255, event_code(me)>> \o <<Len(MetaEvent_data(me)) % 256>>
                \o MetaEvent_data(me),
            Len(<<255, event_code(me)>>) + 1 + Len(MetaEvent_data(me)))

MetaEvent_encode(me) ==
    Written(<<255, event_code(me)>> \o encode_varint(Len(MetaEvent_data(me)))
                \o MetaEvent_data(me),
            Len(<<255, event_code(me)>>) + Len(encode_varint(Len(MetaEvent_data(me))))
                + Len(MetaEvent_data(me)))

\* encodes into a fresh Vec and returns the count
MetaEvent_bytes_size(me) == MetaEvent_encode(me).n

\* a TrackEvent: Midi { time, event } or Meta { time, event }
MidiEvent(t, m) ==
    [kind |-> "Midi", time |-> t, midi |-> m, meta |-> MetaEvent("EndOfTrack", <<>>)]

MetaTrackEvent(t, me) == [kind |-> "Meta", time |-> t, midi |-> NoMsg, meta |-> me]

\* mutant of TrackEvent_bytes_len: the delta-time left out of the count
TrackEvent_bytes_len_without_time(e) ==
    IF e.kind = "Midi" THEN bytes_size(e.midi) ELSE MetaEvent_bytes_size(e.meta)

TrackEvent_bytes_len(e) ==
    Len(encode_varint(e.time))
        + (IF e.kind = "Midi" THEN bytes_size(e.midi) ELSE MetaEvent_bytes_size(e.meta))

TrackEvent_encode(e) ==
    IF e.kind = "Midi"
    THEN Written(encode_varint(e.time) \o MidiMessage_write(e.midi).out,
                 Len(encode_varint(e.time)) + MidiMessage_write(e.midi).n)
    ELSE Written(encode_varint(e.time) \o MetaEvent_encode(e.meta).out,
                 Len(encode_varint(e.time)) + MetaEvent_encode(e.meta).n)

\* track.iter().map(|e| e.bytes_len()).sum()
RECURSIVE sum_bytes_len(_)
sum_bytes_len(track) ==
    IF track = <<>> THEN 0
    ELSE TrackEvent_bytes_len(Head(track)) + sum_bytes_len(Tail(track))

\* for e in track.iter() { bytes_written += e.encode(w)?; }
RECURSIVE encode_events(_)
encode_events(track) ==
    IF track = <<>> THEN Written(<<>>, 0)
    ELSE Written(TrackEvent_encode(Head(track)).out \o encode_events(Tail(track)).out,
                 TrackEvent_encode(Head(track)).n + encode_events(Tail(track)).n)

\* track_bytes is a u32 sum: it wraps only past 2^32 bytes of events
encode_track(track) ==
    Written(<<77, 84, 114, 107>> \o to_be_bytes(sum_bytes_len(track), 4)
                \o encode_events(track).out,
            Len(<<77, 84, 114, 107>>) + Len(to_be_bytes(sum_bytes_len(track), 4))
                + encode_events(track).n)

\* mutant of encode_tracks: the tracks written last to first
RECURSIVE encode_tracks_last_first(_)
encode_tracks_last_first(tracks) ==
    IF tracks = <<>> THEN Written(<<>>, 0)
    ELSE Written(encode_tracks_last_first(Tail(tracks)).out \o encode_track(Head(tracks)).out,
                 encode_tracks_last_first(Tail(tracks)).n + encode_track(Head(tracks)).n)

\* for track in self.tracks.iter() { bytes_written += self.encode_track(w, track)?; }
RECURSIVE encode_tracks(_)
encode_tracks(tracks) ==
    IF tracks = <<>> THEN Written(<<>>, 0)
    ELSE Written(encode_track(Head(tracks)).out \o encode_tracks(Tail(tracks)).out,
                 encode_track(Head(tracks)).n + encode_tracks(Tail(tracks)).n)

encode_header(s) ==
    LET header_length == 6
        format == Format_code(s.format)
        num_tracks == Len(s.tracks) % 65536
        division == Division_encode(s.division)
    IN  Written(<<77, 84, 104, 100>> \o to_be_bytes(header_length, 4)
                    \o to_be_bytes(format, 2) \o to_be_bytes(num_tracks, 2)
                    \o to_be_bytes(division, 2),
                Len(<<77, 84, 104, 100>>) + 4 + 2 + 2 + 2)

\* the checks of validate: "Ok", or the smf::Error wrapped in the io::Error
validate_tracks(s) ==
    IF s.format = "SingleTrack"
    THEN CASE Len(s.tracks) = 0 -> "SingleTrackFormatContainsNoTracks"
           [] Len(s.tracks) = 1 -> "Ok"
           [] OTHER -> "SingleTrackFormatContainsMoreThanOneTrack"
    ELSE "Ok"

\* mutant of validate_division: zero ticks pass
validate_division_allows_zero(s) ==
    IF s.division < 0 THEN "DivisionTicksMustBePositive" ELSE "Ok"

validate_division(s) ==
    IF s.division <= 0 THEN "DivisionTicksMustBePositive" ELSE "Ok"

\* each check ends in ?: the first error returns
validate(s) ==
    IF validate_tracks(s) # "Ok" THEN validate_tracks(s) ELSE validate_division(s)

\* The outcome of SmfWriter::encode: its result and the bytes it appended.
Encoded(r, out) == [res |-> r, out |-> out]

encode(s) ==
    IF validate(s) # "Ok" THEN Encoded(ErrLen(validate(s)), <<>>)
    ELSE Encoded(OkLen(encode_header(s).n + encode_tracks(s.tracks).n),
                 encode_header(s).out \o encode_tracks(s.tracks).out)

---------------------------------------------------------------------------
(* Inputs.                                                                 *)

\* first bytes of an input buffer: every byte
FirstBytes == 0..255

\* bytes that follow the first byte: data bytes at both ends of the range and
\* in its middle, the lowest status byte and the SysEx end byte 0xF7 (the
\* decoder reads of such a byte only its high bit and whether it is 0xF7)
TailBytes == {0, 64, 127, 128, 247}

\* the input buffers: empty, or a first byte followed by up to MaxLen - 1
\* bytes of TailBytes
Buffers ==
    {<<>>} \cup
    {<<first>> \o t : first \in FirstBytes,
                      t \in UNION {[1..n -> TailBytes] : n \in 0..(MaxLen - 1)}}

NoRet == [kind |-> "None", n |-> 0, err |-> "None"]

NoSmfResult == NoRet

NoResult == [kind |-> "None", val |-> NoMsg, err |-> "None", byte |-> 0]

NoSmf == [format |-> "None", division |-> 0, tracks |-> <<>>]

\* no call of a function on its own is made, and none has returned
NoCall == [fn |-> "None", arg |-> 0]

NoReturn == [kind |-> "None"]

---------------------------------------------------------------------------
(* Decoding a buffer: MidiMessage::try_from(bytes).                        *)

InitDecode ==
    /\ pc = "start"
    /\ start = 0
    /\ messages = <<>>
    /\ bytes \in Buffers
    /\ result = NoResult
    /\ msg = NoMsg
    /\ slice = <<>>
    /\ ret = NoRet
    /\ smf = NoSmf
    /\ w = <<>>
    /\ smfResult = NoSmfResult
    /\ call = NoCall
    /\ returned = NoReturn

TryFrom ==
    /\ pc = "start"
    /\ result' = try_from(bytes)
    /\ pc' = "decoded"
    /\ UNCHANGED <<bytes, msg, slice, ret, smf, w, smfResult, call, returned, start, messages>>

NextDecode == TryFrom

SpecDecode == InitDecode /\ [][NextDecode]_vars

---------------------------------------------------------------------------
(* Encoding a message and decoding what was written:                       *)
(* m.copy_to_slice(&mut slice), then MidiMessage::try_from(&slice[..n]).   *)

Channels == 1..16

\* U7 values (data bytes, notes, velocities): both ends and the middle
U7Samples == {0, 64, 127}

\* U14 values: both ends, both sides of the 7-bit carry, and 64 + 128 * 100
U14Samples == {0, 127, 128, 12864, 16383}

Payloads == UNION {[1..n -> U7Samples] : n \in 0..MaxPayload}

UnitTags ==
    {"TuneRequest", "TimingClock", "Start", "Continue", "Stop", "ActiveSensing", "Reset"}

\* every variant of the enum, built from in-range typed fields
Messages ==
    {NoteOff(c, n, v) : c \in Channels, n \in U7Samples, v \in U7Samples}
    \cup {NoteOn(c, n, v) : c \in Channels, n \in U7Samples, v \in U7Samples}
    \cup {PolyphonicKeyPressure(c, n, v) : c \in Channels, n \in U7Samples, v \in U7Samples}
    \cup {ControlChange(c, n, v) : c \in Channels, n \in U7Samples, v \in U7Samples}
    \cup {ProgramChange(c, p) : c \in Channels, p \in U7Samples}
    \cup {ChannelPressure(c, v) : c \in Channels, v \in U7Samples}
    \cup {PitchBendChange(c, p) : c \in Channels, p \in U14Samples}
    \cup {SysEx(d) : d \in Payloads}
    \cup {OwnedSysEx(d) : d \in Payloads}
    \cup {MidiTimeCode(x) : x \in U7Samples}
    \cup {SongPositionPointer(p) : p \in U14Samples}
    \cup {SongSelect(x) : x \in U7Samples}
    \cup {Reserved(x) : x \in 0..255}
    \cup {Unit(t) : t \in UnitTags}

\* what a destination buffer holds before the call
FillBytes == {0, 170}

Dests == {[i \in 1..n |-> f] : n \in 0..MaxDst, f \in FillBytes}

InitEncode ==
    /\ pc = "start"
    /\ start = 0
    /\ messages = <<>>
    /\ msg \in Messages
    /\ slice \in Dests
    /\ bytes = <<>>
    /\ result = NoResult
    /\ ret = NoRet
    /\ smf = NoSmf
    /\ w = <<>>
    /\ smfResult = NoSmfResult
    /\ call = NoCall
    /\ returned = NoReturn

CopyToSlice ==
    /\ pc = "start"
    /\ LET c == copy_to_slice(msg, slice)
       IN  /\ ret' = c.res
           /\ slice' = c.slice
    /\ pc' = "copied"
    /\ UNCHANGED <<bytes, result, msg, smf, w, smfResult, call, returned, start, messages>>

\* the caller decodes the n bytes that copy_to_slice reported written
TryFromSlice ==
    /\ pc = "copied"
    /\ ret.kind = "Ok"
    /\ bytes' = Slice(slice, 0, ret.n)
    /\ result' = try_from(Slice(slice, 0, ret.n))
    /\ pc' = "decoded"
    /\ UNCHANGED <<msg, slice, ret, smf, w, smfResult, call, returned, start, messages>>

NextEncode == CopyToSlice \/ TryFromSlice

SpecEncode == InitEncode /\ [][NextEncode]_vars

---------------------------------------------------------------------------
(* Writing a Standard MIDI File: SmfWriter::encode(&mut w), w a Vec<u8>.   *)

\* bound on the number of tracks of a writer
MaxTracks == 2
\* bound on the number of events of the track of a one-track writer
MaxEvents == 2

Formats == {"SingleTrack", "MultipleTracks", "MultipleSong"}

\* Division::TicksPerBeat(i16): both ends, around zero, around 127
Divisions == {-32768, -1, 0, 1, 96, 127, 128, 480, 32767}

\* delta times: around the one-byte and two-byte limits of the varint
Times == {0, 127, 128, 32768}

Texts == {<<>>, <<97>>, <<104, 105>>}

MidiSamples ==
    {NoteOn(5, 64, 100), ProgramChange(1, 7), PitchBendChange(16, 12864),
     SysEx(<<1, 2>>), SongPositionPointer(128), Unit("Start"), Reserved(244)}

\* the events of the track of a one-track writer
EventSamples ==
    {MidiEvent(0, m) : m \in MidiSamples}
    \cup {MidiEvent(128, NoteOff(1, 0, 0))}
    \cup {MetaTrackEvent(0, MetaEvent("TextEvent", d)) : d \in Texts}
    \cup {MetaTrackEvent(0, MetaEvent("SequenceNumber", <<49>>)),
          MetaTrackEvent(0, MetaEvent("CopyrightNotice", <<99>>))}
    \cup {MetaTrackEvent(t, MetaEvent("EndOfTrack", <<>>)) : t \in Times}

\* the tracks of a writer of several tracks: pairwise different
TrackSamples ==
    {<<>>,
     <<MetaTrackEvent(0, MetaEvent("EndOfTrack", <<>>))>>,
     <<MidiEvent(0, NoteOn(5, 64, 100)), MidiEvent(128, NoteOff(5, 64, 0)),
       MetaTrackEvent(0, MetaEvent("EndOfTrack", <<>>))>>}

\* the writers: any format and division with up to MaxTracks tracks of
\* TrackSamples, or one track of up to MaxEvents events of EventSamples
SmfWriters ==
    [format : Formats, division : Divisions,
     tracks : UNION {[1..n -> TrackSamples] : n \in 0..MaxTracks}]
    \cup [format : {"SingleTrack", "MultipleTracks"}, division : {480},
          tracks : {<<t>> : t \in UNION {[1..n -> EventSamples] : n \in 0..MaxEvents}}]

InitSmf ==
    /\ pc = "start"
    /\ start = 0
    /\ messages = <<>>
    /\ smf \in SmfWriters
    /\ w = <<>>
    /\ smfResult = NoSmfResult
    /\ call = NoCall
    /\ returned = NoReturn
    /\ bytes = <<>>
    /\ result = NoResult
    /\ msg = NoMsg
    /\ slice = <<>>
    /\ ret = NoRet

Encode ==
    /\ pc = "start"
    /\ LET e == encode(smf)
       IN  /\ smfResult' = e.res
           /\ w' = w \o e.out
    /\ pc' = "encoded"
    /\ UNCHANGED <<bytes, result, msg, slice, ret, smf, call, returned, start, messages>>

NextSmf == Encode

SpecSmf == InitSmf /\ [][NextSmf]_vars

---------------------------------------------------------------------------
(* The functions of smf.rs called on their own: encode_varint(val),        *)
(* event.encode(&mut w) and event.bytes_size() of a MetaEvent.             *)

\* the values 0..MaxVarint go through encode_varint
MaxVarint == 300

\* the payloads of meta events are of up to MaxText bytes
MaxText == 2

\* the arguments of encode_varint: the small values, and the values at which
\* the encoding grows by a byte, up to the largest the checker's integers hold
VarintSamples ==
    (0..MaxVarint) \cup {16383, 16384, 32768, 2097151, 2097152, 268435455,
                         268435456, 2147483647}

\* the bytes of the String of a meta event: short ones, and those of 127,
\* 128 and 129 bytes, where the length takes a second VLQ byte
MetaPayloads ==
    UNION {[1..n -> {97, 122}] : n \in 0..MaxText}
    \cup {[i \in 1..n |-> 97] : n \in {127, 128, 129}}

MetaEvents ==
    {MetaEvent(v, d) : v \in {"SequenceNumber", "TextEvent", "CopyrightNotice"},
                       d \in MetaPayloads}
    \cup {MetaEvent("EndOfTrack", <<>>)}

SmfCalls ==
    {[fn |-> "encode_varint", arg |-> v] : v \in VarintSamples}
    \cup {[fn |-> f, arg |-> me] : f \in {"MetaEvent::encode", "MetaEvent::bytes_size"},
                                  me \in MetaEvents}

Returned(v) == [kind |-> "Returned", val |-> v]

InitSmfCall ==
    /\ pc = "start"
    /\ start = 0
    /\ messages = <<>>
    /\ call \in SmfCalls
    /\ returned = NoReturn
    /\ bytes = <<>>
    /\ result = NoResult
    /\ msg = NoMsg
    /\ slice = <<>>
    /\ ret = NoRet
    /\ smf = NoSmf
    /\ w = <<>>
    /\ smfResult = NoSmfResult

EncodeVarint ==
    /\ pc = "start"
    /\ call.fn = "encode_varint"
    /\ returned' = Returned(encode_varint(call.arg))
    /\ pc' = "returned"
    /\ UNCHANGED <<bytes, result, msg, slice, ret, smf, w, smfResult, call, start, messages>>

\* event.encode(&mut w) on an empty writer: the count returned, and the writer
MetaEventEncode ==
    /\ pc = "start"
    /\ call.fn = "MetaEvent::encode"
    /\ returned' = Returned(MetaEvent_encode(call.arg).n)
    /\ w' = w \o MetaEvent_encode(call.arg).out
    /\ pc' = "returned"
    /\ UNCHANGED <<bytes, result, msg, slice, ret, smf, smfResult, call, start, messages>>

MetaEventBytesSize ==
    /\ pc = "start"
    /\ call.fn = "MetaEvent::bytes_size"
    /\ returned' = Returned(MetaEvent_bytes_size(call.arg))
    /\ pc' = "returned"
    /\ UNCHANGED <<bytes, result, msg, slice, ret, smf, w, smfResult, call, start, messages>>

NextSmfCall == EncodeVarint \/ MetaEventEncode \/ MetaEventBytesSize

SpecSmfCall == InitSmfCall /\ [][NextSmfCall]_vars

---------------------------------------------------------------------------
(* The methods of a MidiMessage called on their own: m.bytes_size().       *)

MessageCalls == {[fn |-> "bytes_size", arg |-> m] : m \in Messages}

InitMessageCall ==
    /\ pc = "start"
    /\ start = 0
    /\ messages = <<>>
    /\ call \in MessageCalls
    /\ returned = NoReturn
    /\ bytes = <<>>
    /\ result = NoResult
    /\ msg = NoMsg
    /\ slice = <<>>
    /\ ret = NoRet
    /\ smf = NoSmf
    /\ w = <<>>
    /\ smfResult = NoSmfResult

BytesSize ==
    /\ pc = "start"
    /\ call.fn = "bytes_size"
    /\ returned' = Returned(bytes_size(call.arg))
    /\ pc' = "returned"
    /\ UNCHANGED <<bytes, result, msg, slice, ret, smf, w, smfResult, call, start, messages>>

NextMessageCall == BytesSize

SpecMessageCall == InitMessageCall /\ [][NextMessageCall]_vars

---------------------------------------------------------------------------
(* The validated value types called on their own: U7::try_from(n) and      *)
(* u8::from of its value, U14::try_from(n) and u16::from of its value,     *)
(* U7::try_from_bytes(bytes) and U7::data_to_bytes of its value,           *)
(* Channel::from_index(i) and index() of its value, c.index() and          *)
(* Channel::from_index of its value, c.number().                           *)

\* the arguments of U7::try_from_bytes are of up to MaxBytes bytes
MaxBytes == 3

\* bytes at both ends of the valid and of the invalid range
ByteSamples == {0, 127, 128, 255}

ByteSeqs == UNION {[1..n -> ByteSamples] : n \in 0..MaxBytes}

ValueCalls ==
    {[fn |-> "U7::try_from", arg |-> n] : n \in 0..255}
    \cup {[fn |-> "U14::try_from", arg |-> n] : n \in 0..65535}
    \cup {[fn |-> "U7::try_from_bytes", arg |-> bs] : bs \in ByteSeqs}
    \cup {[fn |-> "Channel::from_index", arg |-> i] : i \in 0..255}
    \cup {[fn |-> f, arg |-> c] : f \in {"Channel::index", "Channel::number"},
                                 c \in Channels}

InitValueCall ==
    /\ pc = "start"
    /\ start = 0
    /\ messages = <<>>
    /\ call \in ValueCalls
    /\ returned = NoReturn
    /\ bytes = <<>>
    /\ result = NoResult
    /\ msg = NoMsg
    /\ slice = <<>>
    /\ ret = NoRet
    /\ smf = NoSmf
    /\ w = <<>>
    /\ smfResult = NoSmfResult

\* what a call of a value type leaves alone
ValueCallFrame == UNCHANGED <<bytes, result, msg, slice, ret, smf, w, smfResult, call, start, messages>>

U7TryFrom ==
    /\ pc = "start"
    /\ call.fn = "U7::try_from"
    /\ returned' = U7_try_from(call.arg)
    /\ pc' = "returned"
    /\ ValueCallFrame

U8FromU7 ==
    /\ pc = "returned"
    /\ call.fn = "U7::try_from"
    /\ returned.kind = "Ok"
    /\ returned' = Returned(u8_from_U7(returned.num))
    /\ pc' = "back"
    /\ ValueCallFrame

U14TryFrom ==
    /\ pc = "start"
    /\ call.fn = "U14::try_from"
    /\ returned' = U14_try_from(call.arg)
    /\ pc' = "returned"
    /\ ValueCallFrame

U16FromU14 ==
    /\ pc = "returned"
    /\ call.fn = "U14::try_from"
    /\ returned.kind = "Ok"
    /\ returned' = Returned(u16_from_U14(returned.num))
    /\ pc' = "back"
    /\ ValueCallFrame

U7TryFromBytes ==
    /\ pc = "start"
    /\ call.fn = "U7::try_from_bytes"
    /\ returned' = U7_try_from_bytes(call.arg)
    /\ pc' = "returned"
    /\ ValueCallFrame

DataToBytes ==
    /\ pc = "returned"
    /\ call.fn = "U7::try_from_bytes"
    /\ returned.kind = "Ok"
    /\ returned' = Returned(data_to_bytes(returned.num))
    /\ pc' = "back"
    /\ ValueCallFrame

ChannelFromIndex ==
    /\ pc = "start"
    /\ call.fn = "Channel::from_index"
    /\ returned' = Channel_from_index(call.arg)
    /\ pc' = "returned"
    /\ ValueCallFrame

\* Channel::from_index(i)?.index()
IndexOfFromIndex ==
    /\ pc = "returned"
    /\ call.fn = "Channel::from_index"
    /\ returned.kind = "Ok"
    /\ returned' = Returned(Channel_index(returned.num))
    /\ pc' = "back"
    /\ ValueCallFrame

ChannelIndex ==
    /\ pc = "start"
    /\ call.fn = "Channel::index"
    /\ returned' = Returned(Channel_index(call.arg))
    /\ pc' = "returned"
    /\ ValueCallFrame

\* Channel::from_index(c.index())
FromIndexOfIndex ==
    /\ pc = "returned"
    /\ call.fn = "Channel::index"
    /\ returned' = Channel_from_index(returned.val)
    /\ pc' = "back"
    /\ ValueCallFrame

ChannelNumber ==
    /\ pc = "start"
    /\ call.fn = "Channel::number"
    /\ returned' = Returned(Channel_number(call.arg))
    /\ pc' = "returned"
    /\ ValueCallFrame

NextValueCall ==
    \/ U7TryFrom \/ U8FromU7
    \/ U14TryFrom \/ U16FromU14
    \/ U7TryFromBytes \/ DataToBytes
    \/ ChannelFromIndex \/ IndexOfFromIndex
    \/ ChannelIndex \/ FromIndexOfIndex
    \/ ChannelNumber

SpecValueCall == InitValueCall /\ [][NextValueCall]_vars

---------------------------------------------------------------------------
(* The 14-bit values: combine_data(lo, hi) and split_data of its value,    *)
(* MidiMessage::try_from of a message with a 14-bit value, copy_to_slice   *)
(* of such a message into a buffer of its size.                            *)

\* 7-bit values that decoding and encoding of a 14-bit value are given
PairSamples == {0, 1, 64, 100, 127}

\* the status bytes of the messages with a 14-bit value
PairStatus == (224..239) \cup {242}

PairMessage(status, v) ==
    IF status = 242 THEN SongPositionPointer(v)
    ELSE PitchBendChange(Channel_from_index(status - 224).num, v)

CombineCalls ==
    {[fn |-> "combine_data", arg |-> <<lo, hi>>] : lo \in 0..127, hi \in 0..127}
    \cup {[fn |-> "try_from", arg |-> <<s, lo, hi>>] :
              s \in PairStatus, lo \in PairSamples, hi \in PairSamples}
    \cup {[fn |-> "copy_to_slice", arg |-> PairMessage(s, combine_data(lo, hi))] :
              s \in PairStatus, lo \in PairSamples, hi \in PairSamples}

InitCombine ==
    /\ pc = "start"
    /\ start = 0
    /\ messages = <<>>
    /\ call \in CombineCalls
    /\ returned = NoReturn
    /\ bytes = <<>>
    /\ result = NoResult
    /\ msg = NoMsg
    /\ slice = <<>>
    /\ ret = NoRet
    /\ smf = NoSmf
    /\ w = <<>>
    /\ smfResult = NoSmfResult

CombineData ==
    /\ pc = "start"
    /\ call.fn = "combine_data"
    /\ returned' = Returned(combine_data(call.arg[1], call.arg[2]))
    /\ pc' = "returned"
    /\ UNCHANGED <<bytes, result, msg, slice, ret, smf, w, smfResult, call, start, messages>>

\* split_data(combine_data(lo, hi))
SplitData ==
    /\ pc = "returned"
    /\ call.fn = "combine_data"
    /\ returned' = Returned(split_data(returned.val))
    /\ pc' = "back"
    /\ UNCHANGED <<bytes, result, msg, slice, ret, smf, w, smfResult, call, start, messages>>

TryFromPair ==
    /\ pc = "start"
    /\ call.fn = "try_from"
    /\ returned' = Returned(try_from(call.arg))
    /\ pc' = "returned"
    /\ UNCHANGED <<bytes, result, msg, slice, ret, smf, w, smfResult, call, start, messages>>

\* m.copy_to_slice(&mut [0; 3])
CopyPairToSlice ==
    /\ pc = "start"
    /\ call.fn = "copy_to_slice"
    /\ returned' = Returned(copy_to_slice(call.arg, <<0, 0, 0>>))
    /\ pc' = "returned"
    /\ UNCHANGED <<bytes, result, msg, slice, ret, smf, w, smfResult, call, start, messages>>

NextCombine == CombineData \/ SplitData \/ TryFromPair \/ CopyPairToSlice

SpecCombine == InitCombine /\ [][NextCombine]_vars

---------------------------------------------------------------------------
(* The ownership of a message's payload: m.to_owned() and                  *)
(* m.drop_unowned_sysex().                                                 *)

OwnershipCalls ==
    {[fn |-> f, arg |-> m] : f \in {"to_owned", "drop_unowned_sysex"}, m \in Messages}

InitOwnership ==
    /\ pc = "start"
    /\ start = 0
    /\ messages = <<>>
    /\ call \in OwnershipCalls
    /\ returned = NoReturn
    /\ bytes = <<>>
    /\ result = NoResult
    /\ msg = NoMsg
    /\ slice = <<>>
    /\ ret = NoRet
    /\ smf = NoSmf
    /\ w = <<>>
    /\ smfResult = NoSmfResult

ToOwned ==
    /\ pc = "start"
    /\ call.fn = "to_owned"
    /\ returned' = Returned(to_owned(call.arg))
    /\ pc' = "returned"
    /\ UNCHANGED <<bytes, result, msg, slice, ret, smf, w, smfResult, call, start, messages>>

DropUnownedSysex ==
    /\ pc = "start"
    /\ call.fn = "drop_unowned_sysex"
    /\ returned' = drop_unowned_sysex(call.arg)
    /\ pc' = "returned"
    /\ UNCHANGED <<bytes, result, msg, slice, ret, smf, w, smfResult, call, start, messages>>

NextOwnership == ToOwned \/ DropUnownedSysex

SpecOwnership == InitOwnership /\ [][NextOwnership]_vars

---------------------------------------------------------------------------
(* The message type of lib.rs: m.drop_sysex(), and m.wire_size() followed  *)
(* by m.write(&mut w) into an empty Vec<u8>.                               *)

\* the messages of lib.rs, whose enum has no OwnedSysEx
LibMessages == {m \in Messages : m.tag # "OwnedSysEx"}

LibCalls == {[fn |-> f, arg |-> m] : f \in {"drop_sysex", "wire_size"}, m \in LibMessages}

InitLib ==
    /\ pc = "start"
    /\ start = 0
    /\ messages = <<>>
    /\ call \in LibCalls
    /\ returned = NoReturn
    /\ bytes = <<>>
    /\ result = NoResult
    /\ msg = NoMsg
    /\ slice = <<>>
    /\ ret = NoRet
    /\ smf = NoSmf
    /\ w = <<>>
    /\ smfResult = NoSmfResult

DropSysex ==
    /\ pc = "start"
    /\ call.fn = "drop_sysex"
    /\ returned' = drop_sysex(call.arg)
    /\ pc' = "returned"
    /\ UNCHANGED <<bytes, result, msg, slice, ret, smf, w, smfResult, call, start, messages>>

WireSize ==
    /\ pc = "start"
    /\ call.fn = "wire_size"
    /\ returned' = Returned(wire_size(call.arg))
    /\ pc' = "sized"
    /\ UNCHANGED <<bytes, result, msg, slice, ret, smf, w, smfResult, call, start, messages>>

Write ==
    /\ pc = "sized"
    /\ LET written == MidiMessage_write(call.arg)
       IN  /\ w' = w \o written.out
           /\ ret' = OkLen(written.n)
    /\ pc' = "written"
    /\ UNCHANGED <<bytes, result, msg, slice, smf, smfResult, call, returned, start, messages>>

NextLib == DropSysex \/ WireSize \/ Write

SpecLib == InitLib /\ [][NextLib]_vars

---------------------------------------------------------------------------
(* Note::step: note.step(h), and on success the step back by -h.           *)

\* every Note
Notes == LOWEST_NOTE..HIGHEST_NOTE

\* every i8
HalfSteps == -128..127

NoteCalls ==
    {[fn |-> "step", arg |-> [note |-> n, half_steps |-> h]] : n \in Notes, h \in HalfSteps}

InitNote ==
    /\ pc = "start"
    /\ start = 0
    /\ messages = <<>>
    /\ call \in NoteCalls
    /\ returned = NoReturn
    /\ bytes = <<>>
    /\ result = NoResult
    /\ msg = NoMsg
    /\ slice = <<>>
    /\ ret = NoRet
    /\ smf = NoSmf
    /\ w = <<>>
    /\ smfResult = NoSmfResult

Step ==
    /\ pc = "start"
    /\ returned' = step(call.arg.note, call.arg.half_steps)
    /\ pc' = "stepped"
    /\ UNCHANGED <<bytes, result, msg, slice, ret, smf, w, smfResult, call, start, messages>>

\* the stepped note taken back by -h; -h is no i8 when h is -128
StepBack ==
    /\ pc = "stepped"
    /\ returned.kind = "Ok"
    /\ call.arg.half_steps # -128
    /\ ret' = step(returned.num, -call.arg.half_steps)
    /\ pc' = "back"
    /\ UNCHANGED <<bytes, result, msg, slice, smf, w, smfResult, call, returned, start, messages>>

NextNote == Step \/ StepBack

SpecNote == InitNote /\ [][NextNote]_vars

---------------------------------------------------------------------------
(* Decoding a stream: the messages are copied one after the other into a   *)
(* buffer of the sum of their sizes, and the buffer is decoded from its    *)
(* start, each try_from reading the rest of the buffer.                    *)

MaxStream == 3

\* the messages of a stream: channel voice messages, borrowed SysEx and the
\* defined system common and real-time messages
StreamSamples ==
    {NoteOn(1, 64, 127), NoteOff(2, 0, 0), PolyphonicKeyPressure(3, 127, 127),
     ControlChange(4, 0, 127), ProgramChange(5, 0), ChannelPressure(6, 127),
     PitchBendChange(7, 16383), PitchBendChange(16, 12864),
     SysEx(<<>>), SysEx(<<0, 127>>),
     MidiTimeCode(127), SongPositionPointer(0), SongSelect(0),
     Unit("TuneRequest"), Unit("TimingClock"), Unit("Start"), Unit("Continue"),
     Unit("Stop"), Unit("ActiveSensing"), Unit("Reset")}

Streams == UNION {[1..n -> StreamSamples] : n \in 0..MaxStream}

\* messages.iter().map(|m| m.bytes_size()).sum()
RECURSIVE sum_bytes_size(_)
sum_bytes_size(ms) ==
    IF ms = <<>> THEN 0 ELSE bytes_size(Head(ms)) + sum_bytes_size(Tail(ms))

\* the loop that copies the messages into the buffer from index at on; the
\* unwrap panics when a copy fails
RECURSIVE copy_many(_, _, _)
copy_many(ms, buffer, at) ==
    IF ms = <<>> THEN [kind |-> "Ok", bytes |-> buffer]
    ELSE LET c == copy_to_slice(Head(ms), Slice(buffer, at, Len(buffer)))
         IN  IF c.res.kind # "Ok" THEN [kind |-> "Panic", bytes |-> buffer]
             ELSE copy_many(Tail(ms), Slice(buffer, 0, at) \o c.slice, at + c.res.n)

InitStream ==
    /\ pc = "start"
    /\ start = 0
    /\ messages = <<>>
    /\ call \in {[fn |-> "bench_from_bytes", arg |-> ms] : ms \in Streams}
    /\ returned = NoReturn
    /\ bytes = <<>>
    /\ result = NoResult
    /\ msg = NoMsg
    /\ slice = <<>>
    /\ ret = NoRet
    /\ smf = NoSmf
    /\ w = <<>>
    /\ smfResult = NoSmfResult

\* let bytes = { .. }
EncodeBytes ==
    /\ pc = "start"
    /\ LET filled == copy_many(call.arg, [i \in 1..sum_bytes_size(call.arg) |-> 0], 0)
       IN  /\ bytes' = filled.bytes
           /\ pc' = IF filled.kind = "Ok" THEN "filled" ELSE "panicked"
    /\ UNCHANGED <<result, msg, slice, ret, smf, w, smfResult, call, returned, start, messages>>

\* one iteration of while start < bytes.len()
DecodeNext ==
    /\ pc = "filled"
    /\ start < Len(bytes)
    /\ result' = try_from(Slice(bytes, start, Len(bytes)))
    /\ IF result'.kind = "Ok"
       THEN /\ start' = start + bytes_size(result'.val)
            /\ messages' = Append(messages, result'.val)
            /\ pc' = pc
       ELSE /\ pc' = "panicked"
            /\ UNCHANGED <<start, messages>>
    /\ UNCHANGED <<bytes, msg, slice, ret, smf, w, smfResult, call, returned>>

\* the loop is left and messages is the value of the closure
ReturnMessages ==
    /\ pc = "filled"
    /\ ~(start < Len(bytes))
    /\ returned' = Returned(messages)
    /\ pc' = "returned"
    /\ UNCHANGED <<bytes, result, msg, slice, ret, smf, w, smfResult, call, start, messages>>

NextStream == EncodeBytes \/ DecodeNext \/ ReturnMessages

SpecStream == InitStream /\ [][NextStream]_vars

---------------------------------------------------------------------------
(* Claims about decoding, under SpecDecode.                                *)

\* the first byte of bs after index 0 that has its high bit set is at index e
FirstStatusAt(bs, e) ==
    /\ e \in 1..(Len(bs) - 1)
    /\ At(bs, e) >= 128
    /\ \A j \in 1..(e - 1) : At(bs, j) < 128

\* the number of data bytes the status byte s requires
DataBytesNeeded(s) ==
    IF s \div 16 \in {8, 9, 10, 11, 14} \/ s = 242 THEN 2
    ELSE IF s \div 16 \in {12, 13} \/ s \in {241, 243} THEN 1
    ELSE 0

\* the buffer holds the data bytes its status byte requires, all of them valid
EnoughValidData(bs) ==
    /\ Len(bs) >= 1 + DataBytesNeeded(bs[1])
    /\ \A i \in 1..DataBytesNeeded(bs[1]) : At(bs, i) < 128

\* C2: decoding a non-empty buffer whose first byte is a data byte (0x00-0x7F)
\* returns the error UnexpectedDataByte, and decode never panics.
C2_DataByteFirstIsAnError ==
    /\ result.kind # "Panic"
    /\ (pc = "decoded" /\ Len(bytes) >= 1 /\ bytes[1] < 128)
           => result = Err("UnexpectedDataByte")

\* C3: a buffer that starts with 0xF0 and whose first later status byte is 0xF7,
\* at index e, decodes to SysEx of the bytes at indices 1..e-1 in order, of
\* bytes_size e + 1; the bytes after index e have no effect on the result.
C3_SysExDecodeSuccess ==
    pc = "decoded" =>
        \A e \in 1..(Len(bytes) - 1) :
            (bytes[1] = 240 /\ FirstStatusAt(bytes, e) /\ At(bytes, e) = 247) =>
                /\ result.kind = "Ok"
                /\ result.val.tag = "SysEx"
                /\ Len(result.val.data) = e - 1
                /\ \A i \in 1..(e - 1) : result.val.data[i] = At(bytes, i)
                /\ bytes_size(result.val) = e + 1
                /\ result = try_from(Slice(bytes, 0, e + 1))

C3_Witness ==
    /\ pc = "decoded"
    /\ bytes = <<240, 64, 127, 247>>
    /\ result.kind = "Ok"
    /\ result.val.data = <<64, 127>>

\* C4: for a buffer that starts with 0xF0, decode fails with NoSysExEndByte when
\* no later byte has its high bit set, and with UnexpectedNonSysExEndByte(s)
\* when the first later byte with the high bit set is s # 0xF7, even if a 0xF7
\* follows.
C4_SysExDecodeFailure ==
    (pc = "decoded" /\ Len(bytes) >= 1 /\ bytes[1] = 240) =>
        /\ (\A j \in 1..(Len(bytes) - 1) : At(bytes, j) < 128)
               => result = Err("NoSysExEndByte")
        /\ \A e \in 1..(Len(bytes) - 1) :
               (FirstStatusAt(bytes, e) /\ At(bytes, e) # 247)
                   => result = ErrByte("UnexpectedNonSysExEndByte", At(bytes, e))

C4_Witness ==
    /\ pc = "decoded"
    /\ bytes = <<240, 0, 128, 247>>
    /\ result.kind = "Err"
    /\ result.err = "UnexpectedNonSysExEndByte"
    /\ result.byte = 128

\* C5: for a status byte that requires k data bytes, decode fails with
\* NotEnoughBytes when fewer than 1 + k bytes are there and the required data
\* bytes that are there are valid, fails with UnexpectedStatusByte when a
\* required data byte that is there has its high bit set, and validates no byte
\* past the k required ones.
C5_DataByteErrors ==
    (pc = "decoded" /\ Len(bytes) >= 1 /\ DataBytesNeeded(bytes[1]) > 0) =>
        LET k == DataBytesNeeded(bytes[1])
            present == {i \in 1..k : i < Len(bytes)}
        IN  /\ (Len(bytes) < 1 + k /\ \A i \in present : At(bytes, i) < 128)
                   => result = Err("NotEnoughBytes")
            /\ (\E i \in present : At(bytes, i) >= 128)
                   => result = Err("UnexpectedStatusByte")
            /\ EnoughValidData(bytes) => result.kind = "Ok"

C5_Witness ==
    /\ pc = "decoded"
    /\ bytes = <<192, 64, 128>>
    /\ result.kind = "Ok"
    /\ result.val.tag = "ProgramChange"

\* the variant the high nibble of a channel-voice status byte selects
VoiceTag(nibble) ==
    CASE nibble = 8 -> "NoteOff"
      [] nibble = 9 -> "NoteOn"
      [] nibble = 10 -> "PolyphonicKeyPressure"
      [] nibble = 11 -> "ControlChange"
      [] nibble = 12 -> "ProgramChange"
      [] nibble = 13 -> "ChannelPressure"
      [] nibble = 14 -> "PitchBendChange"

\* C6: a first byte s in 0x80-0xEF followed by enough valid data bytes decodes
\* to the variant the high nibble of s selects, with the channel whose index is
\* the low nibble of s and the data bytes in wire order (the low 7 bits of a
\* pitch bend first); decode never returns ChannelOutOfRange.
C6_ChannelVoiceDispatch ==
    /\ result.err # "ChannelOutOfRange"
    /\ (pc = "decoded" /\ Len(bytes) >= 1 /\ bytes[1] \in 128..239
            /\ EnoughValidData(bytes)) =>
           LET s == bytes[1]
               m == result.val
           IN  /\ result.kind = "Ok"
               /\ m.tag = VoiceTag(s \div 16)
               /\ Channel_index(m.chan) = s % 16
               /\ m.chan \in 1..16
               /\ m.data = <<>>
               /\ s \div 16 \in {8, 9, 10, 11} => (m.a = At(bytes, 1) /\ m.b = At(bytes, 2))
               /\ s \div 16 \in {12, 13} => m.a = At(bytes, 1)
               /\ s \div 16 = 14 =>
                      (m.a % 128 = At(bytes, 1) /\ m.a \div 128 = At(bytes, 2))

C6_Witness ==
    /\ pc = "decoded"
    /\ bytes = <<159, 64, 127>>
    /\ result.kind = "Ok"
    /\ result.val.tag = "NoteOn"
    /\ result.val.chan = 16

\* the message without fields that a system status byte decodes to
SystemTag(s) ==
    CASE s = 246 -> "TuneRequest"
      [] s = 248 -> "TimingClock"
      [] s = 250 -> "Start"
      [] s = 251 -> "Continue"
      [] s = 252 -> "Stop"
      [] s = 254 -> "ActiveSensing"
      [] s = 255 -> "Reset"

\* C7: a buffer whose first byte is 0xF4, 0xF5, 0xF9 or 0xFD decodes to
\* Reserved(that byte); 0xF6 to TuneRequest, 0xF8 to TimingClock, 0xFA to Start,
\* 0xFB to Continue, 0xFC to Stop, 0xFE to ActiveSensing, 0xFF to Reset, whatever
\* bytes follow; a first byte 0xF7 fails with UnexpectedEndSysExByte.
C7_SystemDispatch ==
    (pc = "decoded" /\ Len(bytes) >= 1) =>
        LET s == bytes[1]
            m == result.val
        IN  /\ s \in {244, 245, 249, 253} =>
                   (result.kind = "Ok" /\ m.tag = "Reserved" /\ m.a = s)
            /\ s \in {246, 248, 250, 251, 252, 254, 255} =>
                   (result.kind = "Ok" /\ m.tag = SystemTag(s))
            /\ s = 247 =>
                   (result.kind = "Err" /\ result.err = "UnexpectedEndSysExByte")

C7_Witness ==
    /\ pc = "decoded"
    /\ bytes = <<249, 247, 0>>
    /\ result.kind = "Ok"
    /\ result.val.tag = "Reserved"
    /\ result.val.a = 249

---------------------------------------------------------------------------
(* Claims about encoding, under SpecEncode.                                *)

\* C1: every message of the enum, encoded by copy_to_slice into a buffer of at
\* least bytes_size() bytes and decoded from the written bytes, comes back
\* equal, and the count copy_to_slice returns is bytes_size(), which is also the
\* bytes_size() of the decoded message.
C1_RoundTripEveryMessage ==
    /\ (pc = "copied" /\ Len(slice) >= bytes_size(msg)) => ret = OkLen(bytes_size(msg))
    /\ pc = "decoded" =>
           /\ result = Ok(msg)
           /\ ret.n = bytes_size(msg)
           /\ bytes_size(result.val) = ret.n

\* the messages decode can yield: not the owned SysEx, and of the Reserved
\* ones those of an undefined status byte
Decodable(m) ==
    /\ m.tag # "OwnedSysEx"
    /\ m.tag = "Reserved" => m.a \in {244, 245, 249, 253}

\* C1 as amended: the round trip holds for every message but OwnedSysEx and
\* Reserved(b) with b not one of 0xF4, 0xF5, 0xF9, 0xFD; an OwnedSysEx(p)
\* comes back as the borrowed SysEx(p), with the same byte counts.
C1_RoundTripDecodable ==
    /\ (pc = "copied" /\ Len(slice) >= bytes_size(msg)) => ret = OkLen(bytes_size(msg))
    /\ (pc = "decoded" /\ Decodable(msg)) =>
           /\ result = Ok(msg)
           /\ ret.n = bytes_size(msg)
           /\ bytes_size(result.val) = ret.n
    /\ (pc = "decoded" /\ msg.tag = "OwnedSysEx") =>
           /\ result = Ok(SysEx(msg.data))
           /\ ret.n = bytes_size(msg)
           /\ bytes_size(result.val) = ret.n

C1_Witness ==
    /\ pc = "decoded"
    /\ msg = PitchBendChange(16, 12864)
    /\ bytes = <<239, 64, 100>>
    /\ Len(slice) > ret.n
    /\ result = Ok(msg)

\* C8: copy_to_slice fails with BufferTooSmall exactly when the destination is
\* shorter than bytes_size(), and a failed call leaves every byte of the
\* destination as it was.
C8_BufferTooSmall ==
    [][(pc = "start" /\ pc' = "copied") =>
           /\ (ret'.kind = "Err" /\ ret'.err = "BufferTooSmall")
                  <=> Len(slice) < bytes_size(msg)
           /\ ret'.kind \in {"Ok", "Err"}
           /\ ret'.kind = "Err" => slice' = slice]_vars

C8_Witness ==
    /\ pc = "copied"
    /\ msg.tag = "NoteOn"
    /\ slice = <<170, 170>>
    /\ ret.kind = "Err"
    /\ ret.err = "BufferTooSmall"

\* the wire bytes of a message: the status byte (the fixed high nibble and the
\* channel index), then the data bytes, a 14-bit value as its low then its high
\* 7 bits, a SysEx payload between 0xF0 and 0xF7
ExpectedWire(m) ==
    CASE m.tag = "NoteOff" -> <<128 + (m.chan - 1), m.a, m.b>>
      [] m.tag = "NoteOn" -> <<144 + (m.chan - 1), m.a, m.b>>
      [] m.tag = "PolyphonicKeyPressure" -> <<160 + (m.chan - 1), m.a, m.b>>
      [] m.tag = "ControlChange" -> <<176 + (m.chan - 1), m.a, m.b>>
      [] m.tag = "ProgramChange" -> <<192 + (m.chan - 1), m.a>>
      [] m.tag = "ChannelPressure" -> <<208 + (m.chan - 1), m.a>>
      [] m.tag = "PitchBendChange" -> <<224 + (m.chan - 1), m.a % 128, m.a \div 128>>
      [] m.tag \in {"SysEx", "OwnedSysEx"} -> <<240>> \o m.data \o <<247>>
      [] m.tag = "MidiTimeCode" -> <<241, m.a>>
      [] m.tag = "SongPositionPointer" -> <<242, m.a % 128, m.a \div 128>>
      [] m.tag = "SongSelect" -> <<243, m.a>>
      [] m.tag = "Reserved" -> <<m.a>>
      [] m.tag \in UnitTags ->
            <<CHOOSE s \in {246, 248, 250, 251, 252, 254, 255} : SystemTag(s) = m.tag>>

\* C9: a successful copy_to_slice returns n = bytes_size(), puts the wire bytes
\* of the message at the destination's indices 0..n-1, and leaves every byte at
\* an index >= n as it was.
C9_WritesExactlyTheMessage ==
    [][(pc = "start" /\ pc' = "copied" /\ ret'.kind = "Ok") =>
           /\ ret'.n = bytes_size(msg)
           /\ Len(ExpectedWire(msg)) = ret'.n
           /\ Len(slice') = Len(slice)
           /\ \A i \in 1..Len(slice) :
                  slice'[i] = IF i <= ret'.n THEN ExpectedWire(msg)[i] ELSE slice[i]]_vars

C9_Witness ==
    /\ pc = "copied"
    /\ ret.kind = "Ok"
    /\ msg = SysEx(<<64, 127>>)
    /\ slice = <<240, 64, 127, 247, 170>>

---------------------------------------------------------------------------
(* Claims about the SMF writer, under SpecSmf.                             *)

EncodeFailedWith(e) == smfResult.kind = "Err" /\ smfResult.err = e

\* C10: encode validates before it emits anything: SingleTrack with no track
\* fails with SingleTrackFormatContainsNoTracks, SingleTrack with two or more
\* tracks with SingleTrackFormatContainsMoreThanOneTrack, TicksPerBeat(t) with
\* t <= 0 with DivisionTicksMustBePositive, and a failed encode has written no
\* byte.
C10_ValidationErrors ==
    pc = "encoded" =>
        /\ (smf.format = "SingleTrack" /\ Len(smf.tracks) = 0)
               => EncodeFailedWith("SingleTrackFormatContainsNoTracks")
        /\ (smf.format = "SingleTrack" /\ Len(smf.tracks) >= 2)
               => EncodeFailedWith("SingleTrackFormatContainsMoreThanOneTrack")
        /\ smf.division <= 0 => EncodeFailedWith("DivisionTicksMustBePositive")
        /\ smfResult.kind = "Err" => w = <<>>

\* C10 as amended: the track count of SingleTrack is checked first, so
\* TicksPerBeat(t) with t <= 0 fails with DivisionTicksMustBePositive when the
\* format is not SingleTrack or there is exactly one track.
C10_ValidationErrorsInOrder ==
    pc = "encoded" =>
        /\ (smf.format = "SingleTrack" /\ Len(smf.tracks) = 0)
               => EncodeFailedWith("SingleTrackFormatContainsNoTracks")
        /\ (smf.format = "SingleTrack" /\ Len(smf.tracks) >= 2)
               => EncodeFailedWith("SingleTrackFormatContainsMoreThanOneTrack")
        /\ (smf.division <= 0 /\ (smf.format # "SingleTrack" \/ Len(smf.tracks) = 1))
               => EncodeFailedWith("DivisionTicksMustBePositive")
        /\ smfResult.kind = "Err" => w = <<>>

C10_Witness ==
    /\ pc = "encoded"
    /\ smf.format = "MultipleTracks"
    /\ Len(smf.tracks) = 2
    /\ smf.division = 0
    /\ EncodeFailedWith("DivisionTicksMustBePositive")
    /\ w = <<>>

---------------------------------------------------------------------------
(* Claims about the bytes of an encoded SMF file, under SpecSmf.           *)

\* the unsigned integer a big-endian byte sequence denotes
RECURSIVE BeValue(_)
BeValue(s) ==
    IF s = <<>> THEN 0 ELSE 256 * BeValue(SubSeq(s, 1, Len(s) - 1)) + s[Len(s)]

\* the bytes TrackEvent::encode gives the writer for the event e
EmittedEvent(e) == TrackEvent_encode(e).out

\* the bytes emitted for the events of a track, in order
RECURSIVE EmittedEvents(_)
EmittedEvents(track) ==
    IF track = <<>> THEN <<>> ELSE EmittedEvent(Head(track)) \o EmittedEvents(Tail(track))

\* the number of bytes the event of e, without its delta-time, is encoded in
EncodedEventLen(e) ==
    IF e.kind = "Midi" THEN Len(MidiMessage_write(e.midi).out)
    ELSE Len(MetaEvent_encode(e.meta).out)

\* the sum over the events of a track of the length of the VLQ delta-time and
\* the length of the encoded event
RECURSIVE SumEventLengths(_)
SumEventLengths(track) ==
    IF track = <<>> THEN 0
    ELSE Len(encode_varint(Head(track).time)) + EncodedEventLen(Head(track))
             + SumEventLengths(Tail(track))

\* out holds from index pos on, to its end, one chunk for each of tracks, in
\* order: "MTrk", a 4-byte big-endian length that is the number of event bytes
\* emitted for the track, then those bytes
RECURSIVE TrackChunksAt(_, _, _)
TrackChunksAt(out, tracks, pos) ==
    IF tracks = <<>> THEN pos = Len(out)
    ELSE LET emitted == EmittedEvents(Head(tracks))
         IN  /\ Len(out) >= pos + 8 + Len(emitted)
             /\ Slice(out, pos, pos + 4) = <<77, 84, 114, 107>>
             /\ BeValue(Slice(out, pos + 4, pos + 8)) = Len(emitted)
             /\ BeValue(Slice(out, pos + 4, pos + 8)) = SumEventLengths(Head(tracks))
             /\ Slice(out, pos + 8, pos + 8 + Len(emitted)) = emitted
             /\ TrackChunksAt(out, Tail(tracks), pos + 8 + Len(emitted))

\* C11: for every track of a successfully encoded SmfWriter, the 4-byte
\* big-endian length written after "MTrk" is the number of event bytes emitted
\* for that track: the sum over its events of the length of the VLQ delta-time
\* and the length of the encoded event.
C11_TrackLengthIsEmittedBytes ==
    (pc = "encoded" /\ smfResult.kind = "Ok") => TrackChunksAt(w, smf.tracks, 14)

C11_Witness ==
    /\ pc = "encoded"
    /\ smfResult.kind = "Ok"
    /\ smf.tracks = <<<<MidiEvent(128, NoteOff(1, 0, 0)),
                        MetaTrackEvent(0, MetaEvent("TextEvent", <<104, 105>>))>>>>
    /\ Slice(w, 14, 22) = <<77, 84, 114, 107, 0, 0, 0, 11>>
    /\ Len(w) = 14 + 8 + 11

\* C12: the division field written in the SMF header is the low 15 bits of
\* the tick count of Division::TicksPerBeat, for every tick count in 1..32767;
\* a tick count above 127 is written unchanged.
C12_DivisionIsLow15Bits ==
    (pc = "encoded" /\ smfResult.kind = "Ok" /\ smf.division \in 1..32767) =>
        /\ Len(w) >= 14
        /\ BeValue(Slice(w, 12, 14)) = smf.division % 32768
        /\ BeValue(Slice(w, 12, 14)) = smf.division

\* the bodies of the chunks that out holds from index pos on to its end, each
\* chunk being "MTrk", a 4-byte big-endian length and that many bytes;
\* <<<<-1>>>> when out is not such a sequence of chunks
RECURSIVE ChunkBodies(_, _)
ChunkBodies(out, pos) ==
    IF pos = Len(out) THEN <<>>
    ELSE IF pos + 8 > Len(out) \/ Slice(out, pos, pos + 4) # <<77, 84, 114, 107>>
         THEN <<<<-1>>>>
    ELSE LET length == BeValue(Slice(out, pos + 4, pos + 8))
         IN  IF pos + 8 + length > Len(out) THEN <<<<-1>>>>
             ELSE <<Slice(out, pos + 8, pos + 8 + length)>>
                      \o ChunkBodies(out, pos + 8 + length)

---------------------------------------------------------------------------
(* Claims about encode_varint and MetaEvent, under SpecSmfCall.            *)

\* the integer the 7-bit payloads of s denote, most significant group first
RECURSIVE VlqValue(_)
VlqValue(s) ==
    IF s = <<>> THEN 0
    ELSE 128 * VlqValue(SubSeq(s, 1, Len(s) - 1)) + (s[Len(s)] % 128)

\* s is a VLQ: not empty, every byte but the last has bit 0x80, the last has not
IsVlq(s) ==
    /\ Len(s) >= 1
    /\ \A i \in 1..Len(s) : s[i] \in 0..255
    /\ \A i \in 1..(Len(s) - 1) : s[i] >= 128
    /\ s[Len(s)] < 128

\* C13: encode_varint(v) is a non-empty byte sequence in which every byte but
\* the last has bit 0x80 set and the last has it clear, and whose 7-bit
\* payloads, most significant group first, give v back; 0 encodes as [0x00],
\* 127 as [0x7F], 255 as [0x81, 0x7F] and 32768 as [0x82, 0x80, 0x00].
C13_VarintIsVlq ==
    (pc = "returned" /\ call.fn = "encode_varint") =>
        /\ IsVlq(returned.val)
        /\ VlqValue(returned.val) = call.arg
        /\ call.arg = 0 => returned.val = <<0>>
        /\ call.arg = 127 => returned.val = <<127>>
        /\ call.arg = 255 => returned.val = <<129, 127>>
        /\ call.arg = 32768 => returned.val = <<130, 128, 0>>

C13_Witness ==
    /\ pc = "returned"
    /\ call = [fn |-> "encode_varint", arg |-> 32768]
    /\ returned.val = <<130, 128, 0>>


\* the event code of each variant of MetaEvent
MetaCode(variant) ==
    CASE variant = "SequenceNumber" -> 0
      [] variant = "TextEvent" -> 1
      [] variant = "CopyrightNotice" -> 2
      [] variant = "EndOfTrack" -> 3

\* the bytes of s after its leading VLQ
RECURSIVE AfterVlq(_)
AfterVlq(s) ==
    IF s = <<>> THEN <<>>
    ELSE IF s[1] < 128 THEN Tail(s)
    ELSE AfterVlq(Tail(s))

\* the leading VLQ of s
VlqOf(s) == SubSeq(s, 1, Len(s) - Len(AfterVlq(s)))

\* C15: a meta-event encodes as 0xFF, its event code (0x00 SequenceNumber,
\* 0x01 TextEvent, 0x02 CopyrightNotice, 0x03 EndOfTrack), the VLQ of the
\* payload's length in bytes, then the payload unchanged; EndOfTrack is exactly
\* [0xFF, 0x03, 0x00]; bytes_size is 2 + the length of the VLQ + the length of
\* the payload.
C15_MetaEventEncoding ==
    /\ (pc = "returned" /\ call.fn = "MetaEvent::encode") =>
           LET rest == SubSeq(w, 3, Len(w))
           IN  /\ Len(w) >= 3
               /\ w[1] = 255
               /\ w[2] = MetaCode(call.arg.variant)
               /\ IsVlq(VlqOf(rest))
               /\ VlqValue(VlqOf(rest)) = Len(call.arg.data)
               /\ AfterVlq(rest) = call.arg.data
               /\ call.arg.variant = "EndOfTrack" => w = <<255, 3, 0>>
               /\ returned.val = Len(w)
    /\ (pc = "returned" /\ call.fn = "MetaEvent::bytes_size") =>
           LET length == Len(call.arg.data)
               vlq == IF length < 128 THEN <<length>>
                      ELSE <<128 + (length \div 128), length % 128>>
           IN  /\ IsVlq(vlq)
               /\ VlqValue(vlq) = length
               /\ returned.val = 2 + Len(vlq) + length

C15_Witness ==
    /\ pc = "returned"
    /\ call.fn = "MetaEvent::encode"
    /\ call.arg.variant = "CopyrightNotice"
    /\ Len(call.arg.data) = 128
    /\ SubSeq(w, 1, 5) = <<255, 2, 129, 0, 97>>
    /\ returned.val = 132

---------------------------------------------------------------------------
(* Claims about the methods of a MidiMessage, under SpecMessageCall.       *)

\* the size of a message of a variant, given the length of its payload
SizeOfVariant(tag, payload_len) ==
    CASE tag \in {"NoteOff", "NoteOn", "PolyphonicKeyPressure", "ControlChange",
                  "PitchBendChange", "SongPositionPointer"} -> 3
      [] tag \in {"ProgramChange", "ChannelPressure", "MidiTimeCode", "SongSelect"} -> 2
      [] tag \in {"SysEx", "OwnedSysEx"} -> 2 + payload_len
      [] tag \in {"Reserved", "TuneRequest", "TimingClock", "Start", "Continue", "Stop",
                  "ActiveSensing", "Reset"} -> 1

\* C16: bytes_size depends only on the variant and, for SysEx, the length of
\* the payload: 3 for NoteOff, NoteOn, PolyphonicKeyPressure, ControlChange,
\* PitchBendChange and SongPositionPointer; 2 for ProgramChange,
\* ChannelPressure, MidiTimeCode and SongSelect; 2 + the payload length for
\* SysEx and OwnedSysEx; 1 for Reserved and the messages without fields.
C16_BytesSizeTable ==
    (pc = "returned" /\ call.fn = "bytes_size") =>
        returned.val = SizeOfVariant(call.arg.tag, Len(call.arg.data))

C16_Witness ==
    /\ pc = "returned"
    /\ call.fn = "bytes_size"
    /\ call.arg.tag = "OwnedSysEx"
    /\ Len(call.arg.data) = 2
    /\ returned.val = 4

---------------------------------------------------------------------------
(* Claims about the validated value types, under SpecValueCall.            *)

Failed(e) == returned.kind = "Err" /\ returned.err = e

\* C17: checked U7 construction from an 8-bit integer n succeeds exactly when
\* 0 <= n <= 127, and the U7 then converts back to n; for every n in 128..255
\* it fails with DataByteOutOfRange.
C17_U7TryFrom ==
    call.fn = "U7::try_from" =>
        /\ pc = "returned" =>
               /\ returned.kind = "Ok" <=> call.arg \in 0..127
               /\ call.arg \in 128..255 => Failed("DataByteOutOfRange")
        /\ pc = "back" => (call.arg \in 0..127 /\ returned.val = call.arg)

C17_Witness ==
    /\ pc = "back"
    /\ call = [fn |-> "U7::try_from", arg |-> 127]
    /\ returned.val = 127

\* C18: checked U14 construction from a 16-bit integer n succeeds exactly when
\* 0 <= n <= 16383, and the U14 then converts back to n; for every n in
\* 16384..65535 it fails with U14OutOfRange.
C18_U14TryFrom ==
    call.fn = "U14::try_from" =>
        /\ pc = "returned" =>
               /\ returned.kind = "Ok" <=> call.arg \in 0..16383
               /\ call.arg \in 16384..65535 => Failed("U14OutOfRange")
        /\ pc = "back" => (call.arg \in 0..16383 /\ returned.val = call.arg)

C18_Witness ==
    /\ pc = "back"
    /\ call = [fn |-> "U14::try_from", arg |-> 16383]
    /\ returned.val = 16383

\* C19: U7::try_from_bytes succeeds if and only if every element is <= 127 (the
\* empty sequence succeeds); the result then has the length and the element
\* values of the input, and data_to_bytes of it is the input; if an element
\* is > 127 the only outcome is the error DataByteOutOfRange, without a
\* partial result.
C19_TryFromBytes ==
    call.fn = "U7::try_from_bytes" =>
        /\ pc = "returned" =>
               /\ returned.kind = "Ok" <=> \A i \in 1..Len(call.arg) : call.arg[i] <= 127
               /\ returned.kind = "Ok" =>
                      /\ Len(returned.num) = Len(call.arg)
                      /\ \A i \in 1..Len(call.arg) : returned.num[i].u7 = call.arg[i]
               /\ (\E i \in 1..Len(call.arg) : call.arg[i] > 127) =>
                      /\ Failed("DataByteOutOfRange")
                      /\ returned.num = 0
        /\ pc = "back" => returned.val = call.arg

C19_Witness ==
    /\ pc = "returned"
    /\ call = [fn |-> "U7::try_from_bytes", arg |-> <<0, 127, 128>>]
    /\ Failed("DataByteOutOfRange")

\* C20: Channel::from_index(i) succeeds exactly for i in 0..15, and then
\* from_index(i).index() = i; for every i >= 16 it fails with
\* ChannelOutOfRange; for every channel c, from_index(c.index()) = c and
\* c.number() = c.index() + 1, which is in 1..16.
C20_ChannelIndexAndNumber ==
    /\ call.fn = "Channel::from_index" =>
           /\ pc = "returned" =>
                  /\ returned.kind = "Ok" <=> call.arg \in 0..15
                  /\ returned.kind = "Ok" => returned.num \in Channels
                  /\ call.arg >= 16 => Failed("ChannelOutOfRange")
           /\ pc = "back" => (call.arg \in 0..15 /\ returned.val = call.arg)
    /\ call.fn = "Channel::index" =>
           /\ pc = "returned" => returned.val \in 0..15
           /\ pc = "back" => (returned.kind = "Ok" /\ returned.num = call.arg)
    /\ (call.fn = "Channel::number" /\ pc = "returned") =>
           /\ returned.val = Channel_index(call.arg) + 1
           /\ returned.val \in 1..16

C20_Witness ==
    /\ pc = "back"
    /\ call = [fn |-> "Channel::from_index", arg |-> 15]
    /\ returned.val = 15

---------------------------------------------------------------------------
(* Claims about the 14-bit values, under SpecCombine.                      *)

\* C21: combine and split are inverses: for all 7-bit lo, hi,
\* combine_data(lo, hi) = lo + 128 * hi and split_data of it is (lo, hi); a
\* PitchBendChange or SongPositionPointer is on the wire low 7 bits first, then
\* high 7 bits (the data bytes 64, 100 decode to 12864).
C21_CombineSplit ==
    /\ call.fn = "combine_data" =>
           /\ pc = "returned" => returned.val = call.arg[1] + 128 * call.arg[2]
           /\ pc = "back" => returned.val = <<call.arg[1], call.arg[2]>>
    /\ (call.fn = "try_from" /\ pc = "returned") =>
           /\ returned.val.kind = "Ok"
           /\ returned.val.val.tag =
                  (IF call.arg[1] = 242 THEN "SongPositionPointer" ELSE "PitchBendChange")
           /\ returned.val.val.a = call.arg[2] + 128 * call.arg[3]
           /\ (call.arg[2] = 64 /\ call.arg[3] = 100) => returned.val.val.a = 12864
    /\ (call.fn = "copy_to_slice" /\ pc = "returned") =>
           /\ returned.val.res.kind = "Ok"
           /\ returned.val.slice[2] = call.arg.a % 128
           /\ returned.val.slice[3] = call.arg.a \div 128

C21_Witness ==
    /\ pc = "back"
    /\ call = [fn |-> "combine_data", arg |-> <<64, 100>>]
    /\ returned.val = <<64, 100>>

---------------------------------------------------------------------------
(* Claims about to_owned and drop_unowned_sysex, under SpecOwnership.      *)

\* C22: to_owned maps a borrowed SysEx(p) to an OwnedSysEx whose payload is
\* equal to p element for element, and returns every other message, the
\* OwnedSysEx among them, unchanged; the result for a borrowed SysEx is not
\* equal to that SysEx, and its bytes_size is the same.
C22_ToOwned ==
    (pc = "returned" /\ call.fn = "to_owned") =>
        /\ call.arg.tag = "SysEx" =>
               /\ returned.val.tag = "OwnedSysEx"
               /\ Len(returned.val.data) = Len(call.arg.data)
               /\ \A i \in 1..Len(call.arg.data) : returned.val.data[i] = call.arg.data[i]
               /\ returned.val # call.arg
               /\ bytes_size(returned.val) = bytes_size(call.arg)
        /\ call.arg.tag # "SysEx" => returned.val = call.arg

C22_Witness ==
    /\ pc = "returned"
    /\ call = [fn |-> "to_owned", arg |-> SysEx(<<64, 127>>)]
    /\ returned.val = OwnedSysEx(<<64, 127>>)

\* C23: drop_unowned_sysex returns None if and only if the message is a
\* borrowed SysEx; for every other message, the OwnedSysEx among them, it
\* returns Some of a message of the same variant and fields.
C23_DropUnownedSysex ==
    (pc = "returned" /\ call.fn = "drop_unowned_sysex") =>
        /\ returned.kind = "None" <=> call.arg.tag = "SysEx"
        /\ call.arg.tag # "SysEx" =>
               /\ returned.kind = "Some"
               /\ returned.val = call.arg

C23_Witness ==
    /\ pc = "returned"
    /\ call = [fn |-> "drop_unowned_sysex", arg |-> OwnedSysEx(<<64, 127>>)]
    /\ returned = [kind |-> "Some", val |-> OwnedSysEx(<<64, 127>>)]

---------------------------------------------------------------------------
(* Claims about the message type of lib.rs, under SpecLib.                 *)

\* C24: drop_sysex of lib.rs returns None if the message is a SysEx and
\* Some(message) if it is not, the returned message having the same variant
\* and the same fields as the original, for every non-SysEx message.
C24_DropSysexKeepsMessage ==
    (pc = "returned" /\ call.fn = "drop_sysex") =>
        /\ call.arg.tag = "SysEx" => returned.kind = "None"
        /\ call.arg.tag # "SysEx" =>
               /\ returned.kind = "Some"
               /\ returned.val.tag = call.arg.tag
               /\ returned.val = call.arg

\* C25: wire_size of lib.rs is the number of bytes that write emits, for
\* every message.
C25_WireSizeIsBytesWritten ==
    (pc = "written" /\ call.fn = "wire_size") => returned.val = Len(w)

---------------------------------------------------------------------------
(* Claims about Note::step, under SpecNote.                                *)

\* C26: step(h) on the note numbered n returns the note numbered n + h when
\* 0 <= n + h <= 127 and fails with NoteOutOfRange otherwise, for every note
\* and every i8 h, the sum never wrapping around; stepping back by -h after a
\* successful step returns the original note whenever h is not -128.
C26_Step ==
    LET n == call.arg.note
        h == call.arg.half_steps
    IN  /\ pc \in {"stepped", "back"} =>
               /\ (0 <= n + h /\ n + h <= 127) => returned = OkNum(n + h)
               /\ (n + h < 0 \/ n + h > 127) => returned = ErrNum("NoteOutOfRange")
        /\ (pc = "stepped" /\ returned.kind = "Ok" /\ h # -128) => ENABLED StepBack
        /\ pc = "back" => ret = OkNum(n)

C26_Witness ==
    /\ pc = "back"
    /\ call.arg = [note |-> 0, half_steps |-> 127]
    /\ returned = OkNum(127)
    /\ ret = OkNum(0)

---------------------------------------------------------------------------
(* Claims about decoding a stream, under SpecStream.                       *)

\* the offset of the boundary after the first n messages of ms
BoundaryAfter(ms, n) == sum_bytes_size(SubSeq(ms, 1, n))

\* C27: decoding the concatenated encodings of m1..mk, each try_from reading
\* the rest of the buffer and the offset advancing by the bytes_size() of the
\* decoded message, never fails, keeps the offset on the boundary after the
\* messages decoded so far, reaches the length of the buffer after exactly k
\* steps, and yields m1..mk in order.
C27_StreamDecoding ==
    LET k == Len(call.arg)
        n == Len(messages)
    IN  /\ pc # "panicked"
        /\ pc \in {"filled", "returned"} =>
               /\ Len(bytes) = BoundaryAfter(call.arg, k)
               /\ n <= k
               /\ messages = SubSeq(call.arg, 1, n)
               /\ start = BoundaryAfter(call.arg, n)
               /\ start = Len(bytes) <=> n = k
        /\ pc = "returned" => returned.val = call.arg

C27_Witness ==
    /\ pc = "returned"
    /\ call.arg = <<SysEx(<<0, 127>>), PitchBendChange(16, 12864)>>
    /\ bytes = <<240, 0, 127, 247, 239, 64, 100>>
    /\ start = 7
    /\ messages = call.arg

---------------------------------------------------------------------------
(* Claims about the values and the errors of decoding, under SpecDecode.   *)

\* the U7 fields of m are at most 127 and its U14 field at most 16383
FieldsInRange(m) ==
    CASE m.tag \in {"NoteOff", "NoteOn", "PolyphonicKeyPressure", "ControlChange"} ->
             m.a \in 0..127 /\ m.b \in 0..127
      [] m.tag \in {"ProgramChange", "ChannelPressure", "MidiTimeCode", "SongSelect"} ->
             m.a \in 0..127
      [] m.tag \in {"PitchBendChange", "SongPositionPointer"} -> m.a \in 0..16383
      [] m.tag \in {"SysEx", "OwnedSysEx"} ->
             \A i \in 1..Len(m.data) : m.data[i] \in 0..127
      [] OTHER -> TRUE

\* C28: on every buffer that try_from decodes, every U7 field of the message
\* (data bytes, note number, elements of a SysEx payload) is at most 127 and
\* every U14 field (pitch bend, song position) is at most 16383.
C28_DecodedFieldsInRange ==
    (pc = "decoded" /\ result.kind = "Ok") => FieldsInRange(result.val)

C28_Witness ==
    /\ pc = "decoded"
    /\ bytes = <<224, 127, 127>>
    /\ result = Ok(PitchBendChange(1, 16383))

\* the status bytes of the messages with two data bytes
TwoDataStatus(status) ==
    BitAnd(status, 240) \in {128, 144, 160, 176, 224} \/ status = 242

\* C29: for a status byte that needs two data bytes, the error is that of
\* the first data position that is wrong: a first data byte of 0x80 or more
\* fails with UnexpectedStatusByte, also when the second is missing; a valid
\* first data byte with the second missing fails with NotEnoughBytes; a valid
\* first data byte with a second of 0x80 or more fails with
\* UnexpectedStatusByte.
C29_ErrorPrecedence ==
    (pc = "decoded" /\ Len(bytes) >= 2 /\ TwoDataStatus(bytes[1])) =>
        /\ bytes[2] >= 128 => result = Err("UnexpectedStatusByte")
        /\ (Len(bytes) = 2 /\ bytes[2] < 128) => result = Err("NotEnoughBytes")
        /\ (Len(bytes) >= 3 /\ bytes[2] < 128 /\ bytes[3] >= 128)
               => result = Err("UnexpectedStatusByte")

C29_Witness ==
    /\ pc = "decoded"
    /\ bytes = <<242, 128>>
    /\ result = Err("UnexpectedStatusByte")

---------------------------------------------------------------------------
(* Claims about the count SmfWriter::encode returns, under SpecSmf.        *)

\* the sum over the tracks of 8 and the length the track's chunk declares
RECURSIVE SumChunkSizes(_)
SumChunkSizes(tracks) ==
    IF tracks = <<>> THEN 0
    ELSE 8 + sum_bytes_len(Head(tracks)) + SumChunkSizes(Tail(tracks))

\* the bytes appended are the header and the chunks with their declared lengths
BytesAppendedAreDeclared == Len(w) = 14 + SumChunkSizes(smf.tracks)

\* C30: when encode succeeds on a Vec<u8>, the count it returns is the number
\* of bytes appended to the writer, which is 14 plus the sum over the tracks
\* of 8 and the track's declared length, whatever MIDI events and meta-events
\* the tracks hold.
C30_ReturnedCountIsBytesAppended ==
    (pc = "encoded" /\ smfResult.kind = "Ok") =>
        /\ smfResult.n = Len(w)
        /\ BytesAppendedAreDeclared

===========================================================================
